---- MODULE Spec2Model ----
(***************************************************************************)
(* Model of the remove-silence pipelines of ffmpego.                       *)
(*                                                                         *)
(*   RemoveVideoSilence        (worker pool, channels, WaitGroup)          *)
(*   RemoveAudioSilence        (sequential, ffmpego package, file list)    *)
(*   RemoveAudioSilence legacy (sequential, aborts on the first failure)   *)
(*                                                                         *)
(* Every run is a goroutine of one process; the workers and the closer of  *)
(* a video run are goroutines too.  The file system and the wall clock are *)
(* shared by all runs.  External tools (ffprobe, ffmpeg) are calls whose   *)
(* outcome is chosen by the environment.                                   *)
(***************************************************************************)
EXTENDS Integers, Sequences, FiniteSets, TLC

\* ---------------------------------------------------------------- bounds
MaxSegments     == 4    \* segments a detection pass returns in Spec
MaxCPU          == 3    \* runtime.NumCPU() in Spec
MaxLiveSegments == 3    \* segments a detection pass returns in LiveSpec
MaxRunSegments  == 1    \* segments per run when two runs are concurrent
MaxClock        == 2    \* clock ticks that pass while runs are active
TicksPerSecond  == 2    \* resolution of the modelled clock
MaxPoolSegments == 10   \* segments in the worker-count specification
MaxPoolCPU      == 10   \* runtime.NumCPU() in the worker-count specification
MaxMarkers      == 4    \* silencedetect lines in one ffmpeg output
MaxQuarters     == 3    \* longest file and latest marker, in quarter seconds
MaxDimension    == 2    \* largest width and height of a frame

\* ------------------------------------------------------ program constants
WorkerCeiling == 8

Runs     == {1, 2}
Variants == {"video", "audio", "legacy"}

\* names of the files of a workspace; segment k is file k (k >= 1)
AudioFile == 0      \* audio/audio.mp3
ListFile  == -1     \* segments.txt / segments_list.txt

NoDir  == <<"none", 0>>
NoPath == <<NoDir, -2>>     \* the empty string of a path slot

VARIABLES
    now,            \* wall clock, in ticks of 1/TicksPerSecond second
    numCPU,         \* runtime.NumCPU()
    dirs,           \* directories that exist under os.TempDir()
    files,          \* files that exist, as <<directory, name>>
    panicked,       \* the process died of a runtime panic
    fn,             \* which entry point run r executes
    pc,             \* position of the orchestrating goroutine of run r
    tempDir,        \* tempDir of run r
    nSeg,           \* len(audioSegments) / len(segments)
    loopIdx,        \* the i of the job-sending / extraction loop
    numWorkers,
    jobs,           \* buffered channel: sequence of job indices
    jobsClosed,
    results,        \* buffered channel: sequence of result records
    resultsClosed,
    wg,             \* sync.WaitGroup counter
    wpc,            \* position of each worker goroutine
    wjob,           \* the job j a worker holds
    closer,         \* position of the goroutine that closes results
    validSegments,
    errCount,
    segmentPaths,
    fileList,       \* lines written to the run's segments.txt
    concatCalled,   \* the concatenation step was invoked
    concatInput,    \* the ordered paths handed to the concatenation
    ret,            \* return value of the run: "running", "nil" or an error
    taken,          \* taken[r][i]: times job i was received by a worker
    extracted,      \* indices whose extraction succeeded
    output,         \* the silencedetect lines ffmpeg printed for the file
    totalDuration,  \* audioInfo.Duration of the file, in 1/100 s
    dpc,            \* position of the detection run
    audioSegments,  \* what DetectNonSilentSegments (starts/ends) returned
    branch,         \* what the caller did with audioSegments
    nonSilentSegments,  \* what DetectNonSilentSegments (intervals) returned
    legacyBranch,   \* what the caller did with nonSilentSegments
    impl,           \* which concatenation runs
    config,         \* its encode configuration, or NoConfig for nil
    info,           \* the descriptor of the reference file
    cpc,            \* position of the concatenation
    codecArgs,      \* the codec options of its ffmpeg command
    callPaths,      \* segmentPaths of concatenation call c
    onDisk,         \* the segment files that exist
    lists,          \* the list files that exist, with their lines
    lpc,            \* position of concatenation call c
    listPath,       \* fileListPath of call c once the file is created
    li,             \* the loop index of call c over its segmentPaths
    wrote,          \* the lines call c wrote to its list file
    fed,            \* what the ffmpeg of call c found in the list file
    lret,           \* return value of call c
    tempSeq,        \* names os.CreateTemp has handed out
    vanished,       \* segment files deleted since the calls began
    namer,          \* the program whose workers name the segment files
    nqueue,         \* the job indices waiting in its jobs channel
    npc,            \* position of each of its workers
    njob,           \* the index of the job a worker holds
    writing,        \* the segmentPath a worker is extracting to
    names           \* the segmentPath computed for each job index

vars == <<now, numCPU, dirs, files, panicked, fn, pc, tempDir, nSeg, loopIdx,
          numWorkers, jobs, jobsClosed, results, resultsClosed, wg, wpc, wjob,
          closer, validSegments, errCount, segmentPaths, fileList, concatCalled,
          concatInput, ret, taken, extracted, output, totalDuration, dpc,
          audioSegments, branch, nonSilentSegments, legacyBranch, impl, config,
          info, cpc, codecArgs, callPaths, onDisk, lists, lpc, listPath, li,
          wrote, fed, lret, tempSeq, vanished, namer, nqueue, npc, njob,
          writing, names>>

fsVars   == <<dirs, files>>
poolVars == <<numWorkers, jobs, jobsClosed, results, resultsClosed, wg, wpc,
              wjob, closer, validSegments, taken>>
outVars  == <<errCount, segmentPaths, fileList, concatCalled, concatInput,
              extracted>>
detVars  == <<output, totalDuration, dpc, audioSegments, branch,
              nonSilentSegments, legacyBranch>>
catVars  == <<impl, config, info, cpc, codecArgs>>
listVars == <<callPaths, onDisk, lists, lpc, listPath, li, wrote, fed, lret,
              tempSeq, vanished>>
nameVars == <<namer, nqueue, npc, njob, writing, names>>
runVars  == <<now, numCPU, dirs, files, panicked, fn, pc, tempDir, nSeg,
              loopIdx, poolVars, outVars, ret>>

\* ------------------------------------------------------------- helpers
Min(a, b) == IF a < b THEN a ELSE b

\* time.Now().Format("20060102_150405"): the clock truncated to the second
FormatStamp(t) == t \div TicksPerSecond

\* filepath.Join(os.TempDir(), "<prefix>"+stamp)
TempDirName(variant, t) ==
    << (IF variant = "video" THEN "video_processor_" ELSE "audio_processor_"),
       FormatStamp(t) >>

\* fmt.Sprintf("segment_%03d%s", j.index+1, ext) under the run's directory
SegmentPath(dir, index) == <<dir, index + 1>>

Exists(path) == path \in files

\* os.MkdirAll / os.RemoveAll on the shared file system
MkdirAll(d)  == dirs' = dirs \cup {d}
RemoveAll(d) == /\ dirs'  = dirs \ {d}
                /\ files' = {f \in files : f[1] # d}

\* a return that leaves the workspace behind (no deferred cleanup)
ReturnNoCleanup(r, err) ==
    /\ pc'  = [pc EXCEPT ![r] = "done"]
    /\ ret' = [ret EXCEPT ![r] = err]
    /\ UNCHANGED <<dirs, files>>

\* a return statement of run r: the deferred os.RemoveAll(tempDir) runs
Return(r, err) ==
    /\ pc'  = [pc EXCEPT ![r] = "done"]
    /\ ret' = [ret EXCEPT ![r] = err]
    /\ RemoveAll(tempDir[r])

\* a pool sized without the ceiling
NumWorkersNoCeiling(cpu, n) == Min(cpu, n)

NumWorkers(cpu, n) == Min(Min(cpu, WorkerCeiling), n)

\* ---------------------------------------------------------------- Init
\* a detection that has not run has returned nothing
NotRun == [status |-> "none", segs |-> <<>>]

\* nil, as an encode configuration
NoConfig == [nil |-> TRUE]

\* no concatenation on its own is part of the run specifications
ConcatOff ==
    /\ impl = "none"
    /\ config = NoConfig
    /\ info = NoConfig
    /\ cpc = "off"
    /\ codecArgs = <<>>

\* the concatenation calls, the directories their segments lie in, and the
\* paths a list file can have: segments_list.txt next to the first
\* segment, or a name os.CreateTemp chose in the system's directory
Calls == {1, 2}
SegmentDirs == {<<"segments", 1>>, <<"segments", 2>>}
SystemTemp  == <<"tmp", 0>>
ListPaths ==
    {<<d, ListFile>> : d \in SegmentDirs} \cup {<<SystemTemp, k>> : k \in Calls}
Absent == [exists |-> FALSE, lines |-> <<>>]

\* no pool of naming workers runs on its own
NameWorkers == {1, 2}

NameOff ==
    /\ namer = "none"
    /\ nqueue = <<>>
    /\ npc = [w \in NameWorkers |-> "off"]
    /\ njob = [w \in NameWorkers |-> 0]
    /\ writing = [w \in NameWorkers |-> <<>>]
    /\ names = <<>>

\* no concatenation call runs on its own
NotInvoked == [invoked |-> FALSE, found |-> FALSE, lines |-> <<>>]

ListOff ==
    /\ callPaths = [c \in Calls |-> <<>>]
    /\ onDisk = {}
    /\ lists = [p \in ListPaths |-> Absent]
    /\ lpc = [c \in Calls |-> "off"]
    /\ listPath = [c \in Calls |-> NoPath]
    /\ li = [c \in Calls |-> 1]
    /\ wrote = [c \in Calls |-> <<>>]
    /\ fed = [c \in Calls |-> NotInvoked]
    /\ lret = [c \in Calls |-> "running"]
    /\ tempSeq = 0
    /\ vanished = 0

\* no detection run is part of the run specifications
DetectOff ==
    /\ output = <<>>
    /\ totalDuration = 0
    /\ dpc = "off"
    /\ audioSegments = NotRun
    /\ branch = "none"
    /\ nonSilentSegments = NotRun
    /\ legacyBranch = "none"

InitRunState(active) ==
    /\ fn \in [Runs -> Variants]
    /\ \A r \in Runs \ active : fn[r] = "video"
    /\ pc = [r \in Runs |-> IF r \in active THEN "start" ELSE "off"]
    /\ now = 0
    /\ dirs = {}
    /\ files = {}
    /\ panicked = FALSE
    /\ tempDir = [r \in Runs |-> NoDir]
    /\ nSeg = [r \in Runs |-> 0]
    /\ loopIdx = [r \in Runs |-> 0]
    /\ numWorkers = [r \in Runs |-> 0]
    /\ jobs = [r \in Runs |-> <<>>]
    /\ jobsClosed = [r \in Runs |-> FALSE]
    /\ results = [r \in Runs |-> <<>>]
    /\ resultsClosed = [r \in Runs |-> FALSE]
    /\ wg = [r \in Runs |-> 0]
    /\ wpc = [r \in Runs |-> <<>>]
    /\ wjob = [r \in Runs |-> <<>>]
    /\ closer = [r \in Runs |-> "off"]
    /\ validSegments = [r \in Runs |-> <<>>]
    /\ errCount = [r \in Runs |-> 0]
    /\ segmentPaths = [r \in Runs |-> <<>>]
    /\ fileList = [r \in Runs |-> <<>>]
    /\ concatCalled = [r \in Runs |-> FALSE]
    /\ concatInput = [r \in Runs |-> <<>>]
    /\ ret = [r \in Runs |-> "running"]
    /\ taken = [r \in Runs |-> <<>>]
    /\ extracted = [r \in Runs |-> {}]

InitRun(active) ==
    /\ DetectOff
    /\ ConcatOff
    /\ ListOff
    /\ NameOff
    /\ InitRunState(active)

Init ==
    /\ numCPU \in 1..MaxCPU
    /\ InitRun({1})

\* ------------------------------------------------- RemoveVideoSilence
\* lines 93-97: name the workspace from the clock, register the cleanup
VideoStart(r) ==
    /\ pc[r] = "start" /\ fn[r] = "video"
    /\ tempDir' = [tempDir EXCEPT ![r] = TempDirName("video", now)]
    /\ pc' = [pc EXCEPT ![r] = "mkdir"]
    /\ UNCHANGED <<now, numCPU, fsVars, panicked, fn, nSeg, loopIdx, poolVars,
                   outVars, ret>>

\* lines 100-106: os.MkdirAll of audioDir and segmentsDir
VideoMkdir(r) ==
    /\ pc[r] = "mkdir" /\ fn[r] = "video"
    /\ \E ok \in BOOLEAN :
         IF ok
         THEN /\ MkdirAll(tempDir[r])
              /\ pc' = [pc EXCEPT ![r] = "probe"]
              /\ UNCHANGED <<files, ret>>
         ELSE Return(r, "failed to create directory")
    /\ UNCHANGED <<now, numCPU, panicked, fn, tempDir, nSeg, loopIdx, poolVars,
                   outVars>>

\* lines 112-115: GetVideoInfo
VideoProbe(r) ==
    /\ pc[r] = "probe" /\ fn[r] = "video"
    /\ \E ok \in BOOLEAN :
         IF ok
         THEN /\ pc' = [pc EXCEPT ![r] = "extractAudio"]
              /\ UNCHANGED <<fsVars, ret>>
         ELSE Return(r, "failed to get video info")
    /\ UNCHANGED <<now, numCPU, panicked, fn, tempDir, nSeg, loopIdx, poolVars,
                   outVars>>

\* lines 124-128: ExtractAudioFromVideo (MkdirAll, then writes audio.mp3)
VideoExtractAudio(r) ==
    /\ pc[r] = "extractAudio" /\ fn[r] = "video"
    /\ \E ok \in BOOLEAN :
         IF ok
         THEN /\ pc' = [pc EXCEPT ![r] = "detect"]
              /\ MkdirAll(tempDir[r])
              /\ files' = files \cup {<<tempDir[r], AudioFile>>}
              /\ UNCHANGED ret
         ELSE Return(r, "failed to extract audio")
    /\ UNCHANGED <<now, numCPU, panicked, fn, tempDir, nSeg, loopIdx, poolVars,
                   outVars>>

\* a detection failure that is reported and then ignored
DetectFailedIgnored(r) ==
    /\ ret' = [ret EXCEPT ![r] = "failed to detect silence"]
    /\ nSeg' = [nSeg EXCEPT ![r] = 1]
    /\ pc' = [pc EXCEPT ![r] = "pool"]
    /\ UNCHANGED fsVars

\* lines 138-140: the error of DetectNonSilentSegments is returned
DetectFailed(r) ==
    /\ Return(r, "failed to detect silence")
    /\ UNCHANGED nSeg

\* lines 136-140: DetectNonSilentSegments returns an error or n segments
VideoDetect(r, limit) ==
    /\ pc[r] = "detect" /\ fn[r] = "video"
    /\ \/ DetectFailed(r)
       \/ \E n \in 0..limit :
            /\ nSeg' = [nSeg EXCEPT ![r] = n]
            /\ pc' = [pc EXCEPT ![r] = IF n = 0 THEN "copy" ELSE "pool"]
            /\ UNCHANGED <<fsVars, ret>>
    /\ UNCHANGED <<now, numCPU, panicked, fn, tempDir, loopIdx, poolVars, outVars>>

\* lines 143-152: nothing to cut, copy the input to the output
VideoCopy(r) ==
    /\ pc[r] = "copy" /\ fn[r] = "video"
    /\ \E ok \in BOOLEAN :
         Return(r, IF ok THEN "nil" ELSE "failed to copy video")
    /\ UNCHANGED <<now, numCPU, panicked, fn, tempDir, nSeg, loopIdx, poolVars,
                   outVars>>

\* a WaitGroup armed for one goroutine only
WgAddOne(n) == 1

\* line 183: wg.Add(numWorkers)
WgAdd(n) == n

\* a worker that never signals the WaitGroup
WgDoneMissing(n) == n

\* line 187: defer wg.Done()
WgDone(n) == n - 1

\* lines 177-178: make(chan job, len(audioSegments)), likewise for results
ChanCap(n) == n

\* lines 161-215: size the pool, make the channels, start the workers
VideoStartPool(r) ==
    /\ pc[r] = "pool" /\ fn[r] = "video"
    /\ LET nw == NumWorkers(numCPU, nSeg[r]) IN
       /\ numWorkers' = [numWorkers EXCEPT ![r] = nw]
       /\ wg'    = [wg EXCEPT ![r] = WgAdd(nw)]
       /\ wpc'   = [wpc EXCEPT ![r] = [w \in 1..nw |-> "recv"]]
       /\ wjob'  = [wjob EXCEPT ![r] = [w \in 1..nw |-> -1]]
    /\ jobs'    = [jobs EXCEPT ![r] = <<>>]
    /\ results' = [results EXCEPT ![r] = <<>>]
    /\ taken'   = [taken EXCEPT ![r] = [i \in 1..nSeg[r] |-> 0]]
    /\ loopIdx' = [loopIdx EXCEPT ![r] = 0]
    /\ pc' = [pc EXCEPT ![r] = "send"]
    /\ UNCHANGED <<now, numCPU, fsVars, panicked, fn, tempDir, nSeg, jobsClosed,
                   resultsClosed, closer, validSegments, outVars, ret>>

\* lines 218-220: jobs <- job{index: i}; the buffer holds all of them
VideoSendJob(r) ==
    /\ pc[r] = "send" /\ fn[r] = "video"
    /\ loopIdx[r] < nSeg[r]
    /\ Len(jobs[r]) < ChanCap(nSeg[r])
    /\ jobs' = [jobs EXCEPT ![r] = Append(@, loopIdx[r])]
    /\ loopIdx' = [loopIdx EXCEPT ![r] = @ + 1]
    /\ UNCHANGED <<now, numCPU, fsVars, panicked, fn, pc, tempDir, nSeg,
                   numWorkers, jobsClosed, results, resultsClosed, wg, wpc, wjob,
                   closer, validSegments, taken, outVars, ret>>

\* lines 221-231: close(jobs), start the closer goroutine, make validSegments
VideoCloseJobs(r) ==
    /\ pc[r] = "send" /\ fn[r] = "video"
    /\ loopIdx[r] = nSeg[r]
    /\ jobsClosed' = [jobsClosed EXCEPT ![r] = TRUE]
    /\ closer' = [closer EXCEPT ![r] = "wait"]
    /\ validSegments' = [validSegments EXCEPT ![r] = [i \in 1..nSeg[r] |-> NoPath]]
    /\ errCount' = [errCount EXCEPT ![r] = 0]
    /\ pc' = [pc EXCEPT ![r] = "collect"]
    /\ UNCHANGED <<now, numCPU, fsVars, panicked, fn, tempDir, nSeg, loopIdx,
                   numWorkers, jobs, results, resultsClosed, wg, wpc, wjob, taken,
                   segmentPaths, fileList, concatCalled, concatInput, extracted,
                   ret>>

\* line 189: for j := range jobs  (receive, or leave the loop when the channel
\* is closed and drained; the deferred wg.Done() then runs)
WorkerRecv(r, w) ==
    /\ fn[r] = "video" /\ w \in DOMAIN wpc[r]
    /\ wpc[r][w] = "recv"
    /\ IF jobs[r] # <<>>
       THEN LET j == Head(jobs[r]) IN
            /\ jobs'  = [jobs EXCEPT ![r] = Tail(@)]
            /\ wjob'  = [wjob EXCEPT ![r][w] = j]
            /\ wpc'   = [wpc EXCEPT ![r][w] = "extract"]
            /\ taken' = [taken EXCEPT ![r][j + 1] = @ + 1]
            /\ UNCHANGED <<wg, panicked>>
       ELSE /\ jobsClosed[r]
            /\ wg'  = [wg EXCEPT ![r] = WgDone(@)]
            /\ wpc' = [wpc EXCEPT ![r][w] = "done"]
            /\ panicked' = (panicked \/ WgDone(wg[r]) < 0)
            /\ UNCHANGED <<jobs, wjob, taken>>
    /\ UNCHANGED <<now, numCPU, fsVars, fn, pc, tempDir, nSeg, loopIdx,
                   numWorkers, jobsClosed, results, resultsClosed, closer,
                   validSegments, outVars, ret>>

\* a worker that gives up after a failed extraction
AfterFailureReturn == "return"

\* line 209: what a worker does after reporting a failed extraction
AfterFailure == "continue"

\* lines 190-212: extractVideoSegmentWithConfig returns, the result is sent
\* (the send waits while the buffer of results is full)
WorkerExtract(r, w) ==
    /\ fn[r] = "video" /\ w \in DOMAIN wpc[r]
    /\ wpc[r][w] = "extract"
    /\ resultsClosed[r] \/ Len(results[r]) < ChanCap(nSeg[r])
    /\ LET j    == wjob[r][w]
           path == SegmentPath(tempDir[r], j)
       IN \E ok \in BOOLEAN :
          LET res == [index |-> j,
                      segmentPath |-> IF ok THEN path ELSE NoPath,
                      err |-> ~ok]
              leave == ~ok /\ AfterFailure # "continue"
          IN
          /\ IF ok
             THEN /\ MkdirAll(tempDir[r])
                  /\ files' = files \cup {path}
                  /\ extracted' = [extracted EXCEPT ![r] = @ \cup {j}]
             ELSE /\ \E made \in BOOLEAN :
                       dirs' = IF made THEN dirs \cup {tempDir[r]} ELSE dirs
                  /\ UNCHANGED <<files, extracted>>
          /\ IF resultsClosed[r]
             THEN /\ panicked' = TRUE      \* send on closed channel
                  /\ wpc' = [wpc EXCEPT ![r][w] = "panic"]
                  /\ UNCHANGED <<results, wg>>
             ELSE /\ results' = [results EXCEPT ![r] = Append(@, res)]
                  /\ wpc' = [wpc EXCEPT ![r][w] = IF leave THEN "done" ELSE "recv"]
                  /\ wg'  = [wg EXCEPT ![r] = IF leave THEN WgDone(@) ELSE @]
                  /\ panicked' = (panicked \/ (leave /\ WgDone(wg[r]) < 0))
    /\ wjob' = [wjob EXCEPT ![r][w] = -1]
    /\ UNCHANGED <<now, numCPU, fn, pc, tempDir, nSeg, loopIdx, numWorkers, jobs,
                   jobsClosed, resultsClosed, closer, validSegments, taken,
                   errCount, segmentPaths, fileList, concatCalled, concatInput,
                   ret>>

\* a closer that does not wait for the workers
WaitDoneAtOnce(r) == TRUE

\* line 225: wg.Wait() returns
WaitDone(r) == wg[r] <= 0

\* lines 224-227: go func() { wg.Wait(); close(results) }()
CloserClose(r) ==
    /\ fn[r] = "video" /\ closer[r] = "wait"
    /\ WaitDone(r)
    /\ resultsClosed' = [resultsClosed EXCEPT ![r] = TRUE]
    /\ closer' = [closer EXCEPT ![r] = "done"]
    /\ UNCHANGED <<now, numCPU, fsVars, panicked, fn, pc, tempDir, nSeg, loopIdx,
                   numWorkers, jobs, jobsClosed, results, wg, wpc, wjob,
                   validSegments, taken, outVars, ret>>

\* results the collector has already received
Arrived(r) ==
    errCount[r] + Cardinality({i \in DOMAIN validSegments[r] :
                                   validSegments[r][i] # NoPath})

\* results stored in the order they arrive
CollectSlotArrival(res, arrived) == arrived

\* line 240: the slot of validSegments a result is stored in
CollectSlot(res, arrived) == res.index

\* lines 233-241: one iteration of  for r := range results
VideoCollect(r) ==
    /\ pc[r] = "collect" /\ fn[r] = "video"
    /\ results[r] # <<>>
    /\ LET res == Head(results[r]) IN
       /\ results' = [results EXCEPT ![r] = Tail(@)]
       /\ IF res.err
          THEN /\ errCount' = [errCount EXCEPT ![r] = @ + 1]
               /\ UNCHANGED validSegments
          ELSE /\ validSegments' =
                    [validSegments EXCEPT ![r][CollectSlot(res, Arrived(r)) + 1] =
                                               res.segmentPath]
               /\ UNCHANGED errCount
    /\ UNCHANGED <<now, numCPU, fsVars, panicked, fn, pc, tempDir, nSeg, loopIdx,
                   numWorkers, jobs, jobsClosed, resultsClosed, wg, wpc, wjob,
                   closer, taken, segmentPaths, fileList, concatCalled,
                   concatInput, extracted, ret>>

\* no filtering of the empty slots
FilterPathsKeepAll(valid) == valid

\* lines 244-248: keep the non-empty slots, in slot order
FilterPaths(valid) == SelectSeq(valid, LAMBDA p : p # NoPath)

\* lines 233, 244-252: the range loop ends on the closed, drained channel;
\* the slots are filtered; no survivor is fatal
VideoFilter(r) ==
    /\ pc[r] = "collect" /\ fn[r] = "video"
    /\ results[r] = <<>> /\ resultsClosed[r]
    /\ LET paths == FilterPaths(validSegments[r]) IN
       /\ segmentPaths' = [segmentPaths EXCEPT ![r] = paths]
       /\ IF Len(paths) = 0
          THEN Return(r, "all segments failed to process")
          ELSE /\ pc' = [pc EXCEPT ![r] = "mkdirOut"]
               /\ UNCHANGED <<fsVars, ret>>
    /\ UNCHANGED <<now, numCPU, panicked, fn, tempDir, nSeg, loopIdx, poolVars,
                   errCount, fileList, concatCalled, concatInput, extracted>>

\* lines 259-261: os.MkdirAll(filepath.Dir(outputPath))
VideoMkdirOutput(r) ==
    /\ pc[r] = "mkdirOut" /\ fn[r] = "video"
    /\ \E ok \in BOOLEAN :
         IF ok
         THEN /\ pc' = [pc EXCEPT ![r] = "concat"]
              /\ UNCHANGED <<fsVars, ret>>
         ELSE Return(r, "failed to create output directory")
    /\ UNCHANGED <<now, numCPU, panicked, fn, tempDir, nSeg, loopIdx, poolVars,
                   outVars>>

\* lines 264-272: concatenateVideoSegmentsWithConfig(segmentPaths, ...)
VideoConcat(r) ==
    /\ pc[r] = "concat" /\ fn[r] = "video"
    /\ concatCalled' = [concatCalled EXCEPT ![r] = TRUE]
    /\ concatInput'  = [concatInput EXCEPT ![r] = segmentPaths[r]]
    /\ \E ok \in BOOLEAN :
         Return(r, IF ok /\ tempDir[r] \in dirs
                   THEN "nil" ELSE "failed to concatenate segments")
    /\ UNCHANGED <<now, numCPU, panicked, fn, tempDir, nSeg, loopIdx, poolVars,
                   errCount, segmentPaths, fileList, extracted>>

VideoStep(r, limit) ==
    \/ VideoStart(r)
    \/ VideoMkdir(r)
    \/ VideoProbe(r)
    \/ VideoExtractAudio(r)
    \/ VideoDetect(r, limit)
    \/ VideoCopy(r)
    \/ VideoStartPool(r)
    \/ VideoSendJob(r)
    \/ VideoCloseJobs(r)
    \/ \E w \in 1..WorkerCeiling : WorkerRecv(r, w)
    \/ \E w \in 1..WorkerCeiling : WorkerExtract(r, w)
    \/ CloserClose(r)
    \/ VideoCollect(r)
    \/ VideoFilter(r)
    \/ VideoMkdirOutput(r)
    \/ VideoConcat(r)

\* --------------------------------------- RemoveAudioSilence (ffmpego)
\* src/audio.go lines 575-578: name the workspace, register the cleanup
AudioStart(r) ==
    /\ pc[r] = "start" /\ fn[r] = "audio"
    /\ tempDir' = [tempDir EXCEPT ![r] = TempDirName("audio", now)]
    /\ pc' = [pc EXCEPT ![r] = "mkdir"]
    /\ UNCHANGED <<now, numCPU, fsVars, panicked, fn, nSeg, loopIdx, poolVars,
                   outVars, ret>>

\* lines 581-583: os.MkdirAll(segmentsDir)
AudioMkdir(r) ==
    /\ pc[r] = "mkdir" /\ fn[r] = "audio"
    /\ \E ok \in BOOLEAN :
         IF ok
         THEN /\ MkdirAll(tempDir[r])
              /\ pc' = [pc EXCEPT ![r] = "probe"]
              /\ UNCHANGED <<files, ret>>
         ELSE Return(r, "failed to create segments directory")
    /\ UNCHANGED <<now, numCPU, panicked, fn, tempDir, nSeg, loopIdx, poolVars,
                   outVars>>

\* lines 589-592: GetAudioInfo
AudioProbe(r) ==
    /\ pc[r] = "probe" /\ fn[r] = "audio"
    /\ \E ok \in BOOLEAN :
         IF ok
         THEN /\ pc' = [pc EXCEPT ![r] = "detect"]
              /\ UNCHANGED <<fsVars, ret>>
         ELSE Return(r, "failed to get audio info")
    /\ UNCHANGED <<now, numCPU, panicked, fn, tempDir, nSeg, loopIdx, poolVars,
                   outVars>>

\* lines 600-603: DetectNonSilentSegments returns an error or n segments
AudioDetect(r, limit) ==
    /\ pc[r] = "detect" /\ fn[r] = "audio"
    /\ \/ /\ Return(r, "failed to detect silence")
          /\ UNCHANGED nSeg
       \/ \E n \in 0..limit :
            /\ nSeg' = [nSeg EXCEPT ![r] = n]
            /\ pc' = [pc EXCEPT ![r] = IF n = 0 THEN "copy" ELSE "createList"]
            /\ UNCHANGED <<fsVars, ret>>
    /\ UNCHANGED <<now, numCPU, panicked, fn, tempDir, loopIdx, poolVars, outVars>>

\* lines 606-615: nothing to cut, copy the input to the output
AudioCopy(r) ==
    /\ pc[r] = "copy" /\ fn[r] = "audio"
    /\ \E ok \in BOOLEAN :
         Return(r, IF ok THEN "nil" ELSE "failed to copy audio")
    /\ UNCHANGED <<now, numCPU, panicked, fn, tempDir, nSeg, loopIdx, poolVars,
                   outVars>>

\* lines 623-629: make segmentPaths, os.Create(segments.txt)
AudioCreateList(r) ==
    /\ pc[r] = "createList" /\ fn[r] = "audio"
    /\ \E ok \in BOOLEAN :
         IF ok /\ tempDir[r] \in dirs
         THEN /\ files' = files \cup {<<tempDir[r], ListFile>>}
              /\ segmentPaths' = [segmentPaths EXCEPT ![r] =
                                      [i \in 1..nSeg[r] |-> NoPath]]
              /\ fileList' = [fileList EXCEPT ![r] = <<>>]
              /\ loopIdx' = [loopIdx EXCEPT ![r] = 0]
              /\ pc' = [pc EXCEPT ![r] = "extract"]
              /\ UNCHANGED <<dirs, ret>>
         ELSE /\ Return(r, "failed to create file list")
              /\ UNCHANGED <<segmentPaths, fileList, loopIdx>>
    /\ UNCHANGED <<now, numCPU, panicked, fn, tempDir, nSeg, poolVars, errCount,
                   concatCalled, concatInput, extracted>>

\* lines 631-696: one iteration of the extraction loop; ffmpeg writes into
\* segmentsDir, a failure is logged and the loop continues
AudioExtract(r) ==
    /\ pc[r] = "extract" /\ fn[r] = "audio"
    /\ loopIdx[r] < nSeg[r]
    /\ LET i    == loopIdx[r]
           path == SegmentPath(tempDir[r], i)
       IN \E ok \in BOOLEAN :
            IF ok /\ tempDir[r] \in dirs
            THEN /\ files' = files \cup {path}
                 /\ segmentPaths' = [segmentPaths EXCEPT ![r][i + 1] = path]
                 /\ fileList' = [fileList EXCEPT ![r] =
                        IF <<tempDir[r], ListFile>> \in files
                        THEN Append(@, path) ELSE @]
                 /\ extracted' = [extracted EXCEPT ![r] = @ \cup {i}]
                 /\ UNCHANGED errCount
            ELSE /\ errCount' = [errCount EXCEPT ![r] = @ + 1]
                 /\ UNCHANGED <<files, segmentPaths, fileList, extracted>>
    /\ loopIdx' = [loopIdx EXCEPT ![r] = @ + 1]
    /\ UNCHANGED <<now, numCPU, dirs, panicked, fn, pc, tempDir, nSeg, poolVars,
                   concatCalled, concatInput, ret>>

\* lines 701-706: validSegmentCount
ValidSegmentCount(paths) ==
    Cardinality({i \in DOMAIN paths : paths[i] # NoPath})

\* lines 698-710: count the extracted segments; none is fatal
AudioCount(r) ==
    /\ pc[r] = "extract" /\ fn[r] = "audio"
    /\ loopIdx[r] = nSeg[r]
    /\ IF ValidSegmentCount(segmentPaths[r]) = 0
       THEN Return(r, "all segments failed to process")
       ELSE /\ pc' = [pc EXCEPT ![r] = "mkdirOut"]
            /\ UNCHANGED <<fsVars, ret>>
    /\ UNCHANGED <<now, numCPU, panicked, fn, tempDir, nSeg, loopIdx, poolVars,
                   outVars>>

\* lines 717-719: os.MkdirAll(filepath.Dir(outputPath))
AudioMkdirOutput(r) ==
    /\ pc[r] = "mkdirOut" /\ fn[r] = "audio"
    /\ \E ok \in BOOLEAN :
         IF ok
         THEN /\ pc' = [pc EXCEPT ![r] = "concat"]
              /\ UNCHANGED <<fsVars, ret>>
         ELSE Return(r, "failed to create output directory")
    /\ UNCHANGED <<now, numCPU, panicked, fn, tempDir, nSeg, loopIdx, poolVars,
                   outVars>>

\* lines 722-780: ffmpeg -f concat -i segments.txt
AudioConcat(r) ==
    /\ pc[r] = "concat" /\ fn[r] = "audio"
    /\ concatCalled' = [concatCalled EXCEPT ![r] = TRUE]
    /\ concatInput'  = [concatInput EXCEPT ![r] = fileList[r]]
    /\ \E ok \in BOOLEAN :
         Return(r, IF ok /\ <<tempDir[r], ListFile>> \in files
                   THEN "nil" ELSE "failed to concatenate segments")
    /\ UNCHANGED <<now, numCPU, panicked, fn, tempDir, nSeg, loopIdx, poolVars,
                   errCount, segmentPaths, fileList, extracted>>

AudioStep(r, limit) ==
    \/ AudioStart(r)
    \/ AudioMkdir(r)
    \/ AudioProbe(r)
    \/ AudioDetect(r, limit)
    \/ AudioCopy(r)
    \/ AudioCreateList(r)
    \/ AudioExtract(r)
    \/ AudioCount(r)
    \/ AudioMkdirOutput(r)
    \/ AudioConcat(r)

\* ------------------------- RemoveAudioSilence (src/audio.go lines 77-129)
\* lines 79-94: detect first; an error or an empty result returns before
\* any workspace exists
LegacyDetect(r, limit) ==
    /\ pc[r] = "start" /\ fn[r] = "legacy"
    /\ \/ /\ pc'  = [pc EXCEPT ![r] = "done"]
          /\ \E e \in {"failed to detect silence", "nil",
                       "failed to create empty output file"} :
               ret' = [ret EXCEPT ![r] = e]
          /\ UNCHANGED nSeg
       \/ \E n \in 1..limit :
            /\ nSeg' = [nSeg EXCEPT ![r] = n]
            /\ pc' = [pc EXCEPT ![r] = "mkdir"]
            /\ UNCHANGED ret
    /\ UNCHANGED <<now, numCPU, fsVars, panicked, fn, tempDir, loopIdx, poolVars,
                   outVars>>

\* lines 97-105: name the workspace, register the cleanup, os.MkdirAll
LegacyMkdir(r) ==
    /\ pc[r] = "mkdir" /\ fn[r] = "legacy"
    /\ LET d == TempDirName("legacy", now) IN
       /\ tempDir' = [tempDir EXCEPT ![r] = d]
       /\ \E ok \in BOOLEAN :
            IF ok
            THEN /\ MkdirAll(d)
                 /\ pc' = [pc EXCEPT ![r] = "extract"]
                 /\ UNCHANGED <<files, ret>>
            ELSE /\ pc'  = [pc EXCEPT ![r] = "done"]
                 /\ ret' = [ret EXCEPT ![r] = "failed to create temporary directory"]
                 /\ RemoveAll(d)
    /\ segmentPaths' = [segmentPaths EXCEPT ![r] = <<>>]
    /\ loopIdx' = [loopIdx EXCEPT ![r] = 0]
    /\ UNCHANGED <<now, numCPU, panicked, fn, nSeg, poolVars, errCount, fileList,
                   concatCalled, concatInput, extracted>>

\* lines 106-120: one iteration: GetAudioInfo, ExtractAudioSegment; either
\* failure returns from the run
LegacyExtract(r) ==
    /\ pc[r] = "extract" /\ fn[r] = "legacy"
    /\ loopIdx[r] < nSeg[r]
    /\ LET i    == loopIdx[r]
           path == SegmentPath(tempDir[r], i)
       IN \E outcome \in {"ok", "failed to get audio info",
                          "failed to extract segment"} :
            IF outcome = "ok"
            THEN /\ MkdirAll(tempDir[r])
                 /\ files' = files \cup {path}
                 /\ segmentPaths' = [segmentPaths EXCEPT ![r] = Append(@, path)]
                 /\ extracted' = [extracted EXCEPT ![r] = @ \cup {i}]
                 /\ loopIdx' = [loopIdx EXCEPT ![r] = @ + 1]
                 /\ UNCHANGED <<pc, ret, errCount>>
            ELSE /\ Return(r, outcome)
                 /\ errCount' = [errCount EXCEPT ![r] =
                        IF outcome = "failed to extract segment" THEN @ + 1 ELSE @]
                 /\ UNCHANGED <<segmentPaths, extracted, loopIdx>>
    /\ UNCHANGED <<now, numCPU, panicked, fn, tempDir, nSeg, poolVars, fileList,
                   concatCalled, concatInput>>

\* lines 123-128: concatenateAudioSegmentsWithConfig(segmentPaths, ...)
LegacyConcat(r) ==
    /\ pc[r] = "extract" /\ fn[r] = "legacy"
    /\ loopIdx[r] = nSeg[r]
    /\ concatCalled' = [concatCalled EXCEPT ![r] = TRUE]
    /\ concatInput'  = [concatInput EXCEPT ![r] = segmentPaths[r]]
    /\ \E ok \in BOOLEAN :
         Return(r, IF ok THEN "nil" ELSE "failed to concatenate segments")
    /\ UNCHANGED <<now, numCPU, panicked, fn, tempDir, nSeg, loopIdx, poolVars,
                   errCount, segmentPaths, fileList, extracted>>

LegacyStep(r, limit) ==
    \/ LegacyDetect(r, limit)
    \/ LegacyMkdir(r)
    \/ LegacyExtract(r)
    \/ LegacyConcat(r)

\* the wall clock advances
Tick ==
    /\ now < MaxClock
    /\ now' = now + 1
    /\ UNCHANGED <<numCPU, fsVars, panicked, fn, pc, tempDir, nSeg, loopIdx,
                   poolVars, outVars, ret, detVars, catVars, listVars, nameVars>>

RunStep(r, limit) ==
    /\ \/ VideoStep(r, limit)
       \/ AudioStep(r, limit)
       \/ LegacyStep(r, limit)
    /\ UNCHANGED <<detVars, catVars, listVars, nameVars>>

\* ------------------------------------------------- silence detection
\* Times are integers, in hundredths of a second.
ShortSegment == 50      \* 0.5 s, the shortest gap that is kept
MinDuration  == 1       \* 0.01 s, the shortest segment the interval walk keeps
UnknownEnd   == -1      \* -1.0, the end of an interval that is still open

MarkerKinds == {"silence_start", "silence_end"}

\* marker times: the start of the file, one hundredth, and quarter seconds
TimePoints == {0, 1} \cup {25 * q : q \in 1..MaxQuarters}

NonDecreasing(out) ==
    \A i \in 1..(Len(out) - 1) : out[i].t <= out[i + 1].t

\* what ffmpeg can print: markers in the order of their times
Outputs ==
    {out \in UNION {[1..n -> [kind : MarkerKinds, t : TimePoints]] :
                       n \in 0..MaxMarkers} : NonDecreasing(out)}

AudioSegment(s, e, d) == [StartTime |-> s, EndTime |-> e, Duration |-> d]

Ok(segs) == [status |-> "ok", segs |-> segs]
Failed   == [status |-> "error", segs |-> <<>>]
Panic    == [status |-> "panic", segs |-> <<>>]

\* src/audio.go lines 1018-1049: all the starts, then all the ends, each in
\* the order of the output
parseSilenceOutput(out) ==
    LET pick(kind) == SelectSeq(out, LAMBDA m : m.kind = kind)
        times(ms)  == [i \in 1..Len(ms) |-> ms[i].t]
    IN  [starts |-> times(pick("silence_start")),
         ends   |-> times(pick("silence_end"))]

\* lines 826-829: nothing to compute from
NoSilenceDetected(S, E) == Len(S) = 0 \/ Len(E) = 0

\* the leading segment, were the threshold of the gaps applied to it
LeadingSegmentIfLong(S) ==
    IF S[1] >= ShortSegment THEN <<AudioSegment(0, S[1], S[1])>> ELSE <<>>

\* lines 843-850
LeadingSegment(S) ==
    IF S[1] > 0 THEN <<AudioSegment(0, S[1], S[1])>> ELSE <<>>

\* the test of the gaps, were no gap too short
IsShortNever(d) == FALSE

\* line 858
IsShort(d) == d < ShortSegment

\* lines 852-867, from Go's i = k - 1 on
RECURSIVE GapSegments(_, _, _)
GapSegments(S, E, k) ==
    IF k > Len(S) - 1 THEN <<>>
    ELSE LET segmentStart == E[k]
             segmentEnd   == S[k + 1]
             rest         == GapSegments(S, E, k + 1)
         IN  IF IsShort(segmentEnd - segmentStart) THEN rest
             ELSE <<AudioSegment(segmentStart, segmentEnd,
                                 segmentEnd - segmentStart)>> \o rest

\* line 854: silenceEnds[i] is read for every i < len(silenceStarts)-1
IndexOutOfRange(S, E) == \E k \in 1..(Len(S) - 1) : k > Len(E)

\* the trailing segment, were the threshold of the gaps applied to it
TrailingSegmentIfLong(E, D) ==
    IF Len(E) > 0 /\ D - E[Len(E)] >= ShortSegment
    THEN <<AudioSegment(E[Len(E)], D, D - E[Len(E)])>>
    ELSE <<>>

\* lines 869-879
TrailingSegment(E, D) ==
    IF Len(E) > 0 /\ E[Len(E)] < D
    THEN <<AudioSegment(E[Len(E)], D, D - E[Len(E)])>>
    ELSE <<>>

\* lines 840-881
ComputeSegments(S, E, D) ==
    IF IndexOutOfRange(S, E) THEN Panic
    ELSE Ok(LeadingSegment(S) \o GapSegments(S, E, 1) \o TrailingSegment(E, D))

\* src/audio.go lines 808-882 (and Audio.DetectSilence): ffmpeg, the parse,
\* the early return, ffprobe, the computation
DetectNonSilentSegments ==
    /\ dpc = "detect"
    /\ LET p == parseSilenceOutput(output)
           S == p.starts
           E == p.ends
       IN  \/ /\ audioSegments' = Failed       \* ffmpeg exited with an error
              /\ dpc' = "branch"
           \/ /\ NoSilenceDetected(S, E)
              /\ audioSegments' = Ok(<<>>)
              /\ dpc' = "branch"
           \/ /\ ~NoSilenceDetected(S, E)
              /\ \/ audioSegments' = Failed    \* GetAudioInfo failed
                 \/ audioSegments' = ComputeSegments(S, E, totalDuration)
              /\ dpc' = "branch"
    /\ UNCHANGED <<runVars, catVars, listVars, nameVars, output,
                   totalDuration, branch, nonSilentSegments,
                   legacyBranch>>

\* src/unnamed/part_001 lines 136-152 and src/audio.go lines 600-615: what
\* the run does with the result of the detection
BranchOn(res) ==
    CASE res.status = "error" -> "failed to detect silence"
      [] res.status = "panic" -> "panic"
      [] res.status = "ok" /\ Len(res.segs) = 0 -> "copy"
      [] OTHER -> "extract"

RemoveSilenceBranch ==
    /\ dpc = "branch"
    /\ branch' = BranchOn(audioSegments)
    /\ dpc' = IF audioSegments.status = "ok" THEN "legacyDetect" ELSE "done"
    /\ UNCHANGED <<runVars, catVars, listVars, nameVars, output,
                   totalDuration, audioSegments,
                   nonSilentSegments, legacyBranch>>

\* src/audio.go lines 195-209: the intervals after the first k lines; a
\* start opens an interval, an end closes the last one if it is open
RECURSIVE silenceIntervals(_, _)
silenceIntervals(out, k) ==
    IF k = 0 THEN <<>>
    ELSE LET prev == silenceIntervals(out, k - 1)
             n    == Len(prev)
         IN  IF out[k].kind = "silence_start"
             THEN Append(prev, <<out[k].t, UnknownEnd>>)
             ELSE IF n > 0 /\ prev[n][2] = UnknownEnd
                  THEN [prev EXCEPT ![n] = <<prev[n][1], out[k].t>>]
                  ELSE prev

\* lines 239-248, 253-262, 267-276: a stretch is kept if it is longer
\* than 0.01 s
Stretch(from, to) ==
    IF to - from > MinDuration
    THEN <<AudioSegment(from, to, to - from)>>
    ELSE <<>>

\* lines 224-264: the walk from interval k on, with lastEnd as it stands;
\* an interval without an end stops the walk at the end of the file
RECURSIVE Walk(_, _, _, _)
Walk(iv, k, lastEnd, D) ==
    IF k > Len(iv) THEN [segs |-> <<>>, lastEnd |-> lastEnd]
    ELSE LET start == IF iv[k][1] < lastEnd THEN lastEnd ELSE iv[k][1]
             end   == iv[k][2]
             before == IF lastEnd < start THEN Stretch(lastEnd, start)
                       ELSE <<>>
         IN  IF end < start
             THEN [segs |-> before, lastEnd |-> D]
             ELSE LET rest == Walk(iv, k + 1, end, D)
                  IN  [segs |-> before \o rest.segs, lastEnd |-> rest.lastEnd]

\* lines 222-279
WalkSegments(iv, D) ==
    LET w == Walk(iv, 1, 0, D)
    IN  w.segs \o (IF w.lastEnd < D THEN Stretch(w.lastEnd, D) ELSE <<>>)

\* src/audio.go lines 165-280: ffmpeg, the scan, ffprobe, the walk
LegacyDetectNonSilentSegments ==
    /\ dpc = "legacyDetect"
    /\ \/ /\ Len(output) = 0        \* ffmpeg failed and printed nothing
          /\ nonSilentSegments' = Failed
       \/ nonSilentSegments' = Failed      \* GetAudioInfo failed
       \/ nonSilentSegments' =
             Ok(WalkSegments(silenceIntervals(output, Len(output)),
                             totalDuration))
    /\ dpc' = "legacyBranch"
    /\ UNCHANGED <<runVars, catVars, listVars, nameVars, output,
                   totalDuration, audioSegments, branch,
                   legacyBranch>>

\* src/audio.go lines 79-94: what the legacy run does with the result
LegacyBranchOn(res) ==
    CASE res.status = "error" -> "failed to detect silence"
      [] res.status = "ok" /\ Len(res.segs) = 0 -> "empty"
      [] OTHER -> "extract"

LegacyRemoveSilenceBranch ==
    /\ dpc = "legacyBranch"
    /\ legacyBranch' = LegacyBranchOn(nonSilentSegments)
    /\ dpc' = "done"
    /\ UNCHANGED <<runVars, catVars, listVars, nameVars, output,
                   totalDuration, audioSegments, branch,
                   nonSilentSegments>>

\* ------------------------------------------------------- specifications
\* one run, any entry point
Next == ~panicked /\ \E r \in {1} : RunStep(r, MaxSegments)

Spec == Init /\ [][Next]_vars

\* one run under a fair scheduler: a goroutine that can step eventually
\* does, and every external call returns
NextLive == ~panicked /\ \E r \in {1} : RunStep(r, MaxLiveSegments)

LiveSpec == Init /\ [][NextLive]_vars /\ WF_vars(NextLive)

\* two runs of one process, started at any time of the modelled clock
InitRuns ==
    /\ numCPU \in 1..MaxCPU
    /\ InitRun(Runs)

NextRuns == ~panicked /\ (Tick \/ \E r \in Runs : RunStep(r, MaxRunSegments))

SpecRuns == InitRuns /\ [][NextRuns]_vars

\* the sizing of the worker pool, from the state reached before detection,
\* for machines and segment lists larger than the ceiling
InitPool ==
    /\ numCPU \in 1..MaxPoolCPU
    /\ DetectOff
    /\ ConcatOff
    /\ ListOff
    /\ NameOff
    /\ LET d == TempDirName("video", 0) IN
         /\ fn = [r \in Runs |-> "video"]
         /\ pc = [r \in Runs |-> IF r = 1 THEN "detect" ELSE "off"]
         /\ now = 0
         /\ dirs = {d}
         /\ files = {<<d, AudioFile>>}
         /\ panicked = FALSE
         /\ tempDir = [r \in Runs |-> IF r = 1 THEN d ELSE NoDir]
         /\ nSeg = [r \in Runs |-> 0]
         /\ loopIdx = [r \in Runs |-> 0]
         /\ numWorkers = [r \in Runs |-> 0]
         /\ jobs = [r \in Runs |-> <<>>]
         /\ jobsClosed = [r \in Runs |-> FALSE]
         /\ results = [r \in Runs |-> <<>>]
         /\ resultsClosed = [r \in Runs |-> FALSE]
         /\ wg = [r \in Runs |-> 0]
         /\ wpc = [r \in Runs |-> <<>>]
         /\ wjob = [r \in Runs |-> <<>>]
         /\ closer = [r \in Runs |-> "off"]
         /\ validSegments = [r \in Runs |-> <<>>]
         /\ errCount = [r \in Runs |-> 0]
         /\ segmentPaths = [r \in Runs |-> <<>>]
         /\ fileList = [r \in Runs |-> <<>>]
         /\ concatCalled = [r \in Runs |-> FALSE]
         /\ concatInput = [r \in Runs |-> <<>>]
         /\ ret = [r \in Runs |-> "running"]
         /\ taken = [r \in Runs |-> <<>>]
         /\ extracted = [r \in Runs |-> {}]

NextPool ==
    /\ ~panicked
    /\ \/ VideoDetect(1, MaxPoolSegments)
       \/ VideoCopy(1)
       \/ VideoStartPool(1)
    /\ UNCHANGED <<detVars, catVars, listVars, nameVars>>

SpecPool == InitPool /\ [][NextPool]_vars

\* the detection of one file, by both implementations, for every output
\* of up to MaxMarkers markers and every duration
InitDetect ==
    /\ numCPU = 1
    /\ InitRunState({})
    /\ ConcatOff
    /\ ListOff
    /\ NameOff
    /\ output \in Outputs
    /\ totalDuration \in TimePoints
    /\ dpc = "detect"
    /\ audioSegments = NotRun
    /\ branch = "none"
    /\ nonSilentSegments = NotRun
    /\ legacyBranch = "none"

NextDetect ==
    \/ DetectNonSilentSegments
    \/ RemoveSilenceBranch
    \/ LegacyDetectNonSilentSegments
    \/ LegacyRemoveSilenceBranch

SpecDetect == InitDetect /\ [][NextDetect]_vars

\* ------------------------------------------- the recombination command
\* A string the code takes apart is a sequence of one-character strings.
Digit(d) ==
    CASE d = 0 -> "0" [] d = 1 -> "1" [] d = 2 -> "2" [] d = 3 -> "3"
      [] d = 4 -> "4" [] d = 5 -> "5" [] d = 6 -> "6" [] d = 7 -> "7"
      [] d = 8 -> "8" [] OTHER -> "9"

Digits == {"0", "1", "2", "3", "4", "5", "6", "7", "8", "9"}

DigitValue(c) == CHOOSE d \in 0..9 : Digit(d) = c

\* fmt.Sprintf("%d", n) for n >= 0
RECURSIVE Itoa(_)
Itoa(n) == IF n < 10 THEN <<Digit(n)>> ELSE Itoa(n \div 10) \o <<Digit(n % 10)>>

\* fmt.Sprintf("%dx%d", w, h)
FormatResolution(w, h) == Itoa(w) \o <<"x">> \o Itoa(h)

\* strings.ToLower, on the letters of the alphabet of the model
ToLower(str) == [i \in 1..Len(str) |-> IF str[i] = "X" THEN "x" ELSE str[i]]

\* strings.Split(str, sep) for a one-character separator
RECURSIVE Split(_, _)
Split(str, sep) ==
    IF \A i \in 1..Len(str) : str[i] # sep THEN <<str>>
    ELSE LET k == CHOOSE i \in 1..Len(str) :
                     str[i] = sep /\ \A j \in 1..(i - 1) : str[j] # sep
         IN  <<SubSeq(str, 1, k - 1)>> \o Split(SubSeq(str, k + 1, Len(str)), sep)

\* strings.TrimSpace
RECURSIVE TrimSpace(_)
TrimSpace(str) ==
    IF Len(str) = 0 THEN str
    ELSE IF str[1] = " " THEN TrimSpace(Tail(str))
    ELSE IF str[Len(str)] = " " THEN TrimSpace(SubSeq(str, 1, Len(str) - 1))
    ELSE str

\* strconv.Atoi of an unsigned decimal: the value, or an error
RECURSIVE AtoiValue(_)
AtoiValue(str) ==
    IF Len(str) = 0 THEN 0
    ELSE 10 * AtoiValue(SubSeq(str, 1, Len(str) - 1))
         + DigitValue(str[Len(str)])

Atoi(str) ==
    IF Len(str) > 0 /\ \A i \in 1..Len(str) : str[i] \in Digits
    THEN [err |-> FALSE, val |-> AtoiValue(str)]
    ELSE [err |-> TRUE, val |-> 0]

\* src/unnamed/part_001 lines 636-653
parseResolution(resolution) ==
    LET parts == Split(ToLower(resolution), "x")
    IN  IF Len(parts) # 2 THEN resolution
        ELSE LET width  == Atoi(TrimSpace(parts[1]))
                 height == Atoi(TrimSpace(parts[2]))
             IN  IF width.err \/ height.err THEN resolution
                 ELSE FormatResolution(width.val, height.val)

\* resolutions a caller can ask for: unset, or a width and a height around
\* a separator, with or without a space before and after
Dimensions == 1..MaxDimension

Pad(b) == IF b THEN <<" ">> ELSE <<>>

Resolutions ==
    {<<>>} \cup
    {Pad(a) \o Itoa(w) \o <<sep>> \o Itoa(h) \o Pad(b) :
        a \in BOOLEAN, b \in BOOLEAN, w \in Dimensions, h \in Dimensions,
        sep \in {"x", "X", "*"}}

\* the descriptor of the reference video, and of the reference audio
VideoInfos ==
    [Width : Dimensions, Height : Dimensions, FrameRate : {30},
     PixelFormat : {"yuv420p"}, VideoCodec : {"h264"}, AudioCodec : {"aac"}]

AudioInfos == [Codec : {"mp3"}, SampleRate : {44100}, Channels : {1, 2}]

\* VideoConfig of package ffmpego (src/utils.go lines 175-185)
VideoConfigs ==
    [TargetResolution : Resolutions, FrameRate : {0, 30, 60},
     PixelFormat : {"", "yuv420p", "yuv444p"},
     VideoCodec : {"", "h264", "libx265"},
     AudioCodec : {"", "aac", "libmp3lame"},
     PreserveCodecs : BOOLEAN]

\* ConvertConfig of package video
ConvertConfigs ==
    [Resolution : Resolutions, AspectRatio : {"", "auto", "16:9"},
     FrameRate : {0, 30, 60},
     PixelFormat : {"", "yuv420p", "yuv444p"},
     VideoCodec : {"", "h264", "libx265"},
     AudioCodec : {"", "aac", "libmp3lame"},
     Bitrate : {0, 5000}]

\* AudioConfig of package ffmpego (src/utils.go lines 188-194)
AudioConfigs ==
    [Codec : {"", "mp3", "aac"}, SampleRate : {0, 44100, 48000},
     Channels : {0, 1, 2}, BitRate : {0, 192}]

Or(value, default) == IF value = "" THEN default ELSE value

StreamCopy == <<<<"-c", "copy">>>>

\* src/unnamed/part_001 lines 560-565
VideoNeedsReencoding(c, i) ==
    \/ /\ c.TargetResolution # <<>>
       /\ parseResolution(c.TargetResolution)
            # FormatResolution(i.Width, i.Height)
    \/ c.FrameRate > 0 /\ c.FrameRate # i.FrameRate
    \/ c.PixelFormat # "" /\ c.PixelFormat # i.PixelFormat
    \/ c.VideoCodec # "" /\ c.VideoCodec # i.VideoCodec
    \/ c.AudioCodec # "" /\ c.AudioCodec # i.AudioCodec

\* src/unnamed/part_001 lines 557-620
VideoCodecArgs(c, i) ==
    IF c = NoConfig THEN StreamCopy
    ELSE IF VideoNeedsReencoding(c, i)
         THEN <<<<"-c:v", Or(c.VideoCodec, "libx264")>>,
                <<"-c:a", Or(c.AudioCodec, "aac")>>>>
         ELSE IF c.PreserveCodecs THEN StreamCopy
         ELSE <<<<"-c:v", "copy">>, <<"-c:a", "copy">>>>

\* ConvertConfig.needsReencoding of package video
needsReencoding(c, i) ==
    IF c = NoConfig THEN FALSE
    ELSE \/ /\ c.Resolution # <<>>
            /\ c.Resolution # FormatResolution(i.Width, i.Height)
         \/ c.AspectRatio # "" /\ c.AspectRatio # "auto"
         \/ c.FrameRate > 0 /\ c.FrameRate # i.FrameRate
         \/ c.VideoCodec # "" /\ c.VideoCodec # i.VideoCodec
         \/ c.AudioCodec # "" /\ c.AudioCodec # i.AudioCodec
         \/ c.PixelFormat # "" /\ c.PixelFormat # i.PixelFormat
         \/ c.Bitrate > 0

\* buildConvertArgs of package video: the codec options
buildConvertArgs(i, c) ==
    <<<<"-c:v", Or(c.VideoCodec, "libx264")>>,
      <<"-c:a", Or(c.AudioCodec, "aac")>>>>

\* src/unnamed/part_008 lines 124-130
ConvertCodecArgs(c, i) ==
    IF c # NoConfig /\ needsReencoding(c, i) THEN buildConvertArgs(i, c)
    ELSE StreamCopy

\* src/audio.go lines 728-766
AudioCodecArgs(c, i) ==
    IF c # NoConfig THEN <<<<"-c:a", Or(c.Codec, i.Codec)>>>>
    ELSE <<<<"-c:a", i.Codec>>>>

\* src/unnamed/part_001 lines 519-633: the command of the video run
concatenateVideoSegmentsWithConfig ==
    /\ cpc = "args" /\ impl = "ffmpego.video"
    /\ codecArgs' = VideoCodecArgs(config, info)
    /\ cpc' = "ffmpeg"
    /\ UNCHANGED <<runVars, detVars, listVars, nameVars, impl, config, info>>

\* src/unnamed/part_008 lines 60-143: the command of video.ConcatenateSegments
ConcatenateSegments ==
    /\ cpc = "args" /\ impl = "video"
    /\ codecArgs' = ConvertCodecArgs(config, info)
    /\ cpc' = "ffmpeg"
    /\ UNCHANGED <<runVars, detVars, listVars, nameVars, impl, config, info>>

\* src/audio.go lines 712-780: the command of the audio run
ConcatenateAudio ==
    /\ cpc = "args" /\ impl = "ffmpego.audio"
    /\ codecArgs' = AudioCodecArgs(config, info)
    /\ cpc' = "ffmpeg"
    /\ UNCHANGED <<runVars, detVars, listVars, nameVars, impl, config, info>>

\* one recombination, of any of the three implementations, with any
\* configuration or none
InitConcat ==
    /\ numCPU = 1
    /\ InitRunState({})
    /\ DetectOff
    /\ ListOff
    /\ NameOff
    /\ impl \in {"ffmpego.video", "video", "ffmpego.audio"}
    /\ info \in IF impl = "ffmpego.audio" THEN AudioInfos ELSE VideoInfos
    /\ config \in {NoConfig} \cup
                  (CASE impl = "ffmpego.video" -> VideoConfigs
                     [] impl = "video" -> ConvertConfigs
                     [] OTHER -> AudioConfigs)
    /\ cpc = "args"
    /\ codecArgs = <<>>

NextConcat ==
    \/ concatenateVideoSegmentsWithConfig
    \/ ConcatenateSegments
    \/ ConcatenateAudio

SpecConcat == InitConcat /\ [][NextConcat]_vars

\* ------------------------------------------- the command of an extraction
\* fmt.Sprintf("%.3f", rate) for the whole rates of the model
FormatRate(rate) == Itoa(rate) \o <<".", "0", "0", "0">>

Option(name, value) == <<<<name, value>>>>

\* src/unnamed/part_001 lines 704-781: the options between -to and -y; the
\* configurations of the model leave CRF and Preset unset
ExtractArgs(c, i) ==
    IF c # NoConfig
    THEN (IF c.VideoCodec # "" THEN Option("-c:v", c.VideoCodec)
          ELSE IF ~c.PreserveCodecs /\ i.VideoCodec # ""
               THEN Option("-c:v", i.VideoCodec)
               ELSE <<>>)
         \o (IF c.AudioCodec # "" THEN Option("-c:a", c.AudioCodec)
             ELSE IF ~c.PreserveCodecs /\ i.AudioCodec # ""
                  THEN Option("-c:a", i.AudioCodec)
                  ELSE <<>>)
         \o (IF c.FrameRate > 0 THEN Option("-r", FormatRate(c.FrameRate))
             ELSE IF i.FrameRate > 0
                  THEN Option("-r", FormatRate(i.FrameRate))
                  ELSE <<>>)
         \o (IF c.TargetResolution # <<>>
             THEN Option("-s", c.TargetResolution)
             ELSE IF i.Width > 0 /\ i.Height > 0
                  THEN Option("-s", FormatResolution(i.Width, i.Height))
                  ELSE <<>>)
         \o (IF c.PixelFormat # "" THEN Option("-pix_fmt", c.PixelFormat)
             ELSE IF i.PixelFormat # ""
                  THEN Option("-pix_fmt", i.PixelFormat)
                  ELSE <<>>)
         \o Option("-crf", "18") \o Option("-preset", "medium")
    ELSE (IF i.VideoCodec # "" THEN Option("-c:v", i.VideoCodec) ELSE <<>>)
         \o (IF i.AudioCodec # "" THEN Option("-c:a", i.AudioCodec) ELSE <<>>)
         \o (IF i.FrameRate > 0 THEN Option("-r", FormatRate(i.FrameRate))
             ELSE <<>>)
         \o (IF i.Width > 0 /\ i.Height > 0
             THEN Option("-s", FormatResolution(i.Width, i.Height))
             ELSE <<>>)
         \o (IF i.PixelFormat # "" THEN Option("-pix_fmt", i.PixelFormat)
             ELSE <<>>)
         \o Option("-crf", "18") \o Option("-preset", "medium")

\* src/unnamed/part_001 lines 690-783: the command of one extraction
extractVideoSegmentWithConfig ==
    /\ cpc = "args" /\ impl = "ffmpego.extract"
    /\ codecArgs' = ExtractArgs(config, info)
    /\ cpc' = "ffmpeg"
    /\ UNCHANGED <<runVars, detVars, listVars, nameVars, impl, config, info>>

\* the extraction of a segment of every source, without a configuration
\* and with every configuration
InitExtract ==
    /\ numCPU = 1
    /\ InitRunState({})
    /\ DetectOff
    /\ ListOff
    /\ NameOff
    /\ impl = "ffmpego.extract"
    /\ info \in VideoInfos
    /\ config \in {NoConfig} \cup VideoConfigs
    /\ cpc = "args"
    /\ codecArgs = <<>>

NextExtract == extractVideoSegmentWithConfig

SpecExtract == InitExtract /\ [][NextExtract]_vars

\* ------------------------------------------- the names of the segment files
\* the workers of RemoveVideoSilence ("ffmpego") and of
\* examples/remove_video_silence ("example") take the jobs of one run and
\* compute the path each extracts to; a name is a sequence of its parts

\* at most MaxNameSegments jobs
MaxNameSegments == 11

\* the %03d of fmt.Sprintf: zeros in front up to the width, never a cut
RECURSIVE PadZero(_, _)
PadZero(digits, width) ==
    IF Len(digits) >= width THEN digits
    ELSE PadZero(<<"0">> \o digits, width)

\* a name that ignores the index
SegmentNameFixed(index) == <<"segment_">> \o PadZero(Itoa(1), 3) \o <<".mp4">>

\* fmt.Sprintf("segment_%03d%s", j.index+1, filepath.Ext(videoPath))
SegmentName(index) ==
    <<"segment_">> \o PadZero(Itoa(index + 1), 3) \o <<".mp4">>

\* fmt.Sprintf("segment_%03d.mp4", job.index)
ExampleSegmentName(index) ==
    <<"segment_">> \o PadZero(Itoa(index), 3) \o <<".mp4">>

\* for j := range jobs, up to the computation of segmentPath; a worker
\* leaves the loop when the channel is drained
NameRecv(w) ==
    /\ npc[w] = "recv"
    /\ IF nqueue = <<>>
       THEN /\ npc' = [npc EXCEPT ![w] = "done"]
            /\ UNCHANGED <<nqueue, njob, writing, names>>
       ELSE LET j == Head(nqueue)
                segmentPath == IF namer = "ffmpego" THEN SegmentName(j)
                               ELSE ExampleSegmentName(j)
            IN  /\ nqueue' = Tail(nqueue)
                /\ njob' = [njob EXCEPT ![w] = j]
                /\ writing' = [writing EXCEPT ![w] = segmentPath]
                /\ names' = [names EXCEPT ![j + 1] = segmentPath]
                /\ npc' = [npc EXCEPT ![w] = "extract"]
    /\ UNCHANGED <<runVars, detVars, catVars, listVars, namer>>

\* the extraction to segmentPath returns and the result is sent
NameExtract(w) ==
    /\ npc[w] = "extract"
    /\ writing' = [writing EXCEPT ![w] = <<>>]
    /\ npc' = [npc EXCEPT ![w] = "recv"]
    /\ UNCHANGED <<runVars, detVars, catVars, listVars, namer, nqueue, njob,
                   names>>

\* the jobs 0 .. n-1 are in the channel and the workers are started
InitNames ==
    /\ numCPU = 1
    /\ InitRunState({})
    /\ DetectOff
    /\ ConcatOff
    /\ ListOff
    /\ namer \in {"ffmpego", "example"}
    /\ \E n \in 1..MaxNameSegments :
         /\ nqueue = [k \in 1..n |-> k - 1]
         /\ names = [k \in 1..n |-> <<>>]
    /\ npc = [w \in NameWorkers |-> "recv"]
    /\ njob = [w \in NameWorkers |-> 0]
    /\ writing = [w \in NameWorkers |-> <<>>]

NextNames ==
    \/ \E w \in NameWorkers : NameRecv(w)
    \/ \E w \in NameWorkers : NameExtract(w)

SpecNames == InitNames /\ [][NextNames]_vars

\* ------------------------------------------------- the reference list file
\* concatenateVideoSegmentsWithConfig ("ffmpego.video"),
\* video.ConcatenateSegments ("video") and audio.ConcatenateSegments
\* ("audio"), step by step on a file system two calls share; the calls pass
\* a nil configuration

\* at most MaxListSegments segment paths per call, of which up to MaxVanish
\* are deleted while the calls run
MaxListSegments == 2
MaxVanish == 1

\* the k-th segment path of call c, in directory d
ListedSegment(d, c, k) == <<d, (c - 1) * MaxListSegments + k>>
Listed(d, c, n) == [k \in 1..n |-> ListedSegment(d, c, k)]

\* filepath.Dir
Dir(path) == path[1]

\* os.Create: the file exists and is empty, whatever it held
Create(path) == [lists EXCEPT ![path] = [exists |-> TRUE, lines |-> <<>>]]

\* os.Remove
Remove(path) == [lists EXCEPT ![path] = Absent]

\* WriteString on the open file: the line reaches the file at the path
\* unless the file was unlinked in the meantime
WriteString(path, line) ==
    IF lists[path].exists
    THEN [lists EXCEPT ![path].lines = Append(@, line)]
    ELSE lists

\* the return of a call: the deferred os.Remove(fileListPath) runs if the
\* file had been created
ReturnListKeep(c, err) ==
    /\ lret' = [lret EXCEPT ![c] = err]
    /\ lpc' = [lpc EXCEPT ![c] = "done"]
    /\ lists' = lists

ReturnList(c, err) ==
    /\ lret' = [lret EXCEPT ![c] = err]
    /\ lpc' = [lpc EXCEPT ![c] = "done"]
    /\ lists' = IF listPath[c] # NoPath THEN Remove(listPath[c]) ELSE lists

\* the path of the list file: a fresh name from os.CreateTemp, or the
\* fixed name in the directory of the first segment
FileListPath(c) ==
    IF impl = "audio"
    THEN <<SystemTemp, tempSeq + 1>>
    ELSE <<Dir(callPaths[c][1]), ListFile>>

\* from the entry to the creation of the list file
ListOpen(c) ==
    /\ lpc[c] = "start"
    /\ \E infoOk \in BOOLEAN, createOk \in BOOLEAN :
         IF Len(callPaths[c]) = 0
         THEN /\ ReturnList(c, "no segments to concatenate")
              /\ UNCHANGED <<listPath, li, tempSeq>>
         ELSE IF impl \in {"video", "audio"} /\ callPaths[c][1] \notin onDisk
         THEN /\ ReturnList(c, "failed to open first segment")
              /\ UNCHANGED <<listPath, li, tempSeq>>
         ELSE IF impl \in {"video", "audio"} /\ ~infoOk
         THEN /\ ReturnList(c, IF impl = "video"
                                THEN "failed to get video info"
                                ELSE "failed to get audio info")
              /\ UNCHANGED <<listPath, li, tempSeq>>
         ELSE IF ~createOk
         THEN /\ ReturnList(c, "failed to create file list")
              /\ UNCHANGED <<listPath, li, tempSeq>>
         ELSE /\ lists' = Create(FileListPath(c))
              /\ listPath' = [listPath EXCEPT ![c] = FileListPath(c)]
              /\ tempSeq' = IF impl = "audio" THEN tempSeq + 1 ELSE tempSeq
              /\ lpc' = [lpc EXCEPT ![c] = "write"]
              /\ li' = [li EXCEPT ![c] = 1]
              /\ UNCHANGED lret
    /\ UNCHANGED <<runVars, detVars, catVars, nameVars, callPaths, onDisk,
                   wrote, fed,
                   vanished>>

\* one pass of the loop over segmentPaths: a path that does not exist is
\* skipped, any other gets its line
ListWrite(c) ==
    /\ lpc[c] = "write"
    /\ li[c] <= Len(callPaths[c])
    /\ LET path == callPaths[c][li[c]] IN
         IF path \notin onDisk
         THEN UNCHANGED <<lists, wrote>>
         ELSE /\ lists' = WriteString(listPath[c], path)
              /\ wrote' = [wrote EXCEPT ![c] = Append(@, path)]
    /\ li' = [li EXCEPT ![c] = li[c] + 1]
    /\ UNCHANGED <<runVars, detVars, catVars, nameVars, callPaths, onDisk, lpc,
                   listPath, fed, lret, tempSeq, vanished>>

\* after the loop: the list is closed, the two package functions stat it
\* and refuse an empty one, and the output directory is created
ListCheck(c) ==
    /\ lpc[c] = "write"
    /\ li[c] > Len(callPaths[c])
    /\ \E mkdirOk \in BOOLEAN :
         IF impl \in {"video", "audio"} /\ ~lists[listPath[c]].exists
         THEN ReturnList(c, "failed to stat file list")
         ELSE IF impl \in {"video", "audio"} /\ lists[listPath[c]].lines = <<>>
         THEN ReturnList(c, IF impl = "video"
                             THEN "no valid segments found to concatenate"
                             ELSE "no valid audio segments found to concatenate")
         ELSE IF ~mkdirOk
         THEN ReturnList(c, "failed to create output directory")
         ELSE /\ lpc' = [lpc EXCEPT ![c] = "ffmpeg"]
              /\ UNCHANGED <<lists, lret>>
    /\ UNCHANGED <<runVars, detVars, catVars, nameVars, callPaths, onDisk,
                   listPath, li,
                   wrote, fed, tempSeq, vanished>>

\* what ffmpeg finds at the path of the list when it runs
ReadList(path) ==
    [invoked |-> TRUE, found |-> lists[path].exists, lines |-> lists[path].lines]

\* the ffmpeg command and the return; ffmpeg fails on a list that is
\* missing or empty, and may fail on any other
ListCombine(c) ==
    /\ lpc[c] = "ffmpeg"
    /\ fed' = [fed EXCEPT ![c] = ReadList(listPath[c])]
    /\ \E ffmpegOk \in BOOLEAN :
         IF ffmpegOk /\ lists[listPath[c]].exists
                     /\ lists[listPath[c]].lines # <<>>
         THEN ReturnList(c, "nil")
         ELSE ReturnList(c, "failed to concatenate segments")
    /\ UNCHANGED <<runVars, detVars, catVars, nameVars, callPaths, onDisk,
                   listPath, li,
                   wrote, tempSeq, vanished>>

\* a segment file is deleted under the running calls
Vanish ==
    /\ vanished < MaxVanish
    /\ \E c \in Calls : lpc[c] \notin {"start", "done"}
    /\ \E path \in onDisk :
         onDisk' = onDisk \ {path}
    /\ vanished' = vanished + 1
    /\ UNCHANGED <<runVars, detVars, catVars, nameVars, callPaths, lists,
                   lpc, listPath,
                   li, wrote, fed, lret, tempSeq>>

\* two calls of one implementation, the second with its segments in the
\* directory of the first or in another, each path present or not
InitList ==
    /\ numCPU = 1
    /\ InitRunState({})
    /\ DetectOff
    /\ impl \in {"ffmpego.video", "video", "audio"}
    /\ config = NoConfig
    /\ info = NoConfig
    /\ cpc = "off"
    /\ codecArgs = <<>>
    /\ \E d \in SegmentDirs, n1 \in 0..MaxListSegments,
          n2 \in 0..MaxListSegments :
         callPaths = [c \in Calls |->
                        IF c = 1 THEN Listed(<<"segments", 1>>, 1, n1)
                                 ELSE Listed(d, c, n2)]
    /\ onDisk \in SUBSET UNION {{callPaths[c][k] : k \in 1..Len(callPaths[c])}
                                  : c \in Calls}
    /\ lists = [p \in ListPaths |-> Absent]
    /\ lpc = [c \in Calls |-> "start"]
    /\ listPath = [c \in Calls |-> NoPath]
    /\ li = [c \in Calls |-> 1]
    /\ wrote = [c \in Calls |-> <<>>]
    /\ fed = [c \in Calls |-> NotInvoked]
    /\ lret = [c \in Calls |-> "running"]
    /\ tempSeq = 0
    /\ vanished = 0
    /\ NameOff

NextList ==
    \/ \E c \in Calls : ListOpen(c)
    \/ \E c \in Calls : ListWrite(c)
    \/ \E c \in Calls : ListCheck(c)
    \/ \E c \in Calls : ListCombine(c)
    \/ Vanish

SpecList == InitList /\ [][NextList]_vars


\* -------------------------------------- the memory the goroutines touch
\* the variables of RemoveVideoSilence that more than one goroutine can
\* name; channels, the WaitGroup and the logger synchronise by themselves
SharedVariables ==
    {"videoPath", "segmentsDir", "videoInfo", "config", "audioSegments",
     "validSegments", "errCount", "segmentPaths", "err"}

\* lines 218-231 and 233-267: what the next statements of the orchestrating
\* goroutine write and read, by its position
MainWrites(p) ==
    CASE p = "send" -> {"validSegments", "errCount"}
      [] p = "collect" -> {"validSegments", "errCount", "segmentPaths"}
      [] p = "mkdirOut" -> {"err"}
      [] p = "concat" -> {"err"}
      [] OTHER -> {}

MainReads(p) ==
    CASE p = "send" -> {"audioSegments"}
      [] p = "collect" -> {"audioSegments", "validSegments", "segmentPaths"}
      [] p = "mkdirOut" -> {"err"}
      [] p = "concat" -> {"segmentPaths", "videoInfo", "config", "err"}
      [] OTHER -> {}

\* a worker that stores its result in the array itself
WorkerWritesSlot(p) == IF p = "extract" THEN {"validSegments"} ELSE {}

\* lines 186-215: a worker writes its own j, segmentPath and err only
WorkerWrites(p) == {}

\* lines 193-203: the arguments of the extraction
WorkerReads(p) ==
    IF p = "extract"
    THEN {"videoPath", "segmentsDir", "videoInfo", "config"}
    ELSE {}

\* the goroutines of run r that have started and not ended
Goroutines(r) ==
    (IF pc[r] # "done" THEN {[kind |-> "main", id |-> 0]} ELSE {})
      \cup {[kind |-> "worker", id |-> w] :
              w \in {v \in DOMAIN wpc[r] : wpc[r][v] \in {"recv", "extract"}}}
      \cup (IF closer[r] = "wait" THEN {[kind |-> "closer", id |-> 0]} ELSE {})

\* lines 224-227: the closing goroutine touches the WaitGroup and the
\* results channel only
Writes(r, g) ==
    CASE g.kind = "main" -> MainWrites(pc[r])
      [] g.kind = "worker" -> WorkerWrites(wpc[r][g.id])
      [] OTHER -> {}

Reads(r, g) ==
    CASE g.kind = "main" -> MainReads(pc[r])
      [] g.kind = "worker" -> WorkerReads(wpc[r][g.id])
      [] OTHER -> {}

\* ------------------------------------------------------------- properties
Returned(r)   == pc[r] = "done"
PoolRan(r)    == fn[r] = "video" /\ numWorkers[r] > 0
AllWorkersDone(r) == \A w \in DOMAIN wpc[r] : wpc[r][w] = "done"
PastCollect(r) == PoolRan(r) /\ pc[r] \in {"mkdirOut", "concat", "done"}
IndexOf(path) == path[2] - 1

\* the paths of the extracted segments, by increasing index
RECURSIVE PathsUpTo(_, _, _)
PathsUpTo(dir, set, n) ==
    IF n = 0 THEN <<>>
    ELSE LET rest == PathsUpTo(dir, set, n - 1) IN
         IF (n - 1) \in set THEN Append(rest, SegmentPath(dir, n - 1)) ELSE rest
Survivors(r) == PathsUpTo(tempDir[r], extracted[r], nSeg[r])

Increasing(paths) ==
    \A a, b \in DOMAIN paths : a < b => IndexOf(paths[a]) < IndexOf(paths[b])

\* C1: in RemoveVideoSilence slot i of validSegments only ever holds the path
\* produced for job i, and the paths handed to the concatenation are in
\* increasing segment index, whatever order the workers finished in.
C1_SegmentOrder ==
    \A r \in Runs : fn[r] = "video" =>
        /\ \A i \in DOMAIN validSegments[r] :
               validSegments[r][i] \in {NoPath, SegmentPath(tempDir[r], i - 1)}
        /\ Increasing(segmentPaths[r])
        /\ Increasing(concatInput[r])
        /\ concatCalled[r] =>
               \A i \in extracted[r] :
                   \E a \in DOMAIN concatInput[r] :
                       concatInput[r][a] = SegmentPath(tempDir[r], i)

\* job 1 finished first and the collector has stored its path in slot 1,
\* while the successful result of job 0 is still waiting in the channel
C1_Witness ==
    /\ fn[1] = "video" /\ pc[1] = "collect" /\ resultsClosed[1]
    /\ Len(validSegments[1]) >= 2
    /\ validSegments[1][1] = NoPath
    /\ validSegments[1][2] # NoPath
    /\ \E k \in DOMAIN results[1] :
           results[1][k].index = 0 /\ ~results[1][k].err

\* C2: results is closed only after every worker returned: no worker sends
\* on the closed channel, and when the collector's loop has ended it has
\* received exactly one result per job.
C2_CloseAfterWorkers ==
    /\ ~panicked
    /\ \A r \in Runs :
        /\ resultsClosed[r] => AllWorkersDone(r)
        /\ PastCollect(r) => Arrived(r) = nSeg[r] /\ results[r] = <<>>

C2_Witness ==
    /\ PastCollect(1) /\ resultsClosed[1]
    /\ numWorkers[1] >= 2 /\ nSeg[1] > numWorkers[1]
    /\ Arrived(1) = nSeg[1]

\* jobs a worker has finished executing
Finished(r) ==
    {i \in 0..(nSeg[r] - 1) :
        /\ i + 1 \in DOMAIN taken[r] /\ taken[r][i + 1] >= 1
        /\ \A w \in DOMAIN wjob[r] : wjob[r][w] # i}
ErrorsInFlight(r) == {k \in DOMAIN results[r] : results[r][k].err}

\* C3: a failed extraction stops no worker: every job is received at most
\* once, every job has been received exactly once when the collector's loop
\* has ended, and each failed job yields one result with its index, an error
\* and no path.
C3_EveryJobOnce ==
    \A r \in Runs : fn[r] = "video" =>
        /\ \A i \in DOMAIN taken[r] : taken[r][i] <= 1
        /\ PastCollect(r) => \A i \in DOMAIN taken[r] : taken[r][i] = 1
        /\ \A k \in ErrorsInFlight(r) :
               /\ results[r][k].segmentPath = NoPath
               /\ results[r][k].index \in Finished(r) \ extracted[r]
        /\ \A k, l \in DOMAIN results[r] :
               k # l => results[r][k].index # results[r][l].index
        /\ errCount[r] + Cardinality(ErrorsInFlight(r))
               = Cardinality(Finished(r) \ extracted[r])

\* four segments, three workers, only the extraction of index 2 failed
C3_Witness ==
    /\ PastCollect(1) /\ nSeg[1] = MaxSegments /\ numWorkers[1] = 3
    /\ extracted[1] = (0..(nSeg[1] - 1)) \ {2} /\ errCount[1] = 1
    /\ \A i \in DOMAIN taken[1] : taken[1][i] = 1

\* C4: when k of the N extractions fail, 0 < k < N, the run goes on to the
\* concatenation with the N-k surviving segments in index order, it is not
\* failed by the extraction errors, and the failure count is k.
C4_PartialFailureProceeds ==
    \A r \in Runs :
        ( /\ Returned(r)
          /\ errCount[r] >= 1 /\ extracted[r] # {}
          /\ ret[r] # "failed to create output directory" )
        => /\ concatCalled[r]
           /\ concatInput[r] = Survivors(r)
           /\ Len(concatInput[r]) = nSeg[r] - errCount[r]
           /\ ret[r] \in {"nil", "failed to concatenate segments"}

\* C5: in RemoveVideoSilence and the ffmpego RemoveAudioSilence the run
\* returns "all segments failed to process" exactly when every extraction
\* was attempted and none succeeded, the concatenation is then never invoked,
\* and with a survivor the run fails only in a later stage.
C5_AllFailedIffNoSurvivor ==
    \A r \in Runs : fn[r] \in {"video", "audio"} =>
        /\ ret[r] = "all segments failed to process"
             <=> ( /\ Returned(r) /\ nSeg[r] >= 1
                   /\ extracted[r] = {} /\ errCount[r] = nSeg[r] )
        /\ ret[r] = "all segments failed to process" => ~concatCalled[r]
        /\ concatCalled[r] => extracted[r] # {}
        /\ (Returned(r) /\ extracted[r] # {}) =>
               ret[r] \in {"nil", "failed to create output directory",
                           "failed to concatenate segments"}

C5_Witness ==
    /\ fn[1] = "video" /\ Returned(1)
    /\ ret[1] = "all segments failed to process"
    /\ nSeg[1] >= 2 /\ errCount[1] = nSeg[1] /\ ~concatCalled[1]

Quiescent(r) ==
    /\ Returned(r) /\ AllWorkersDone(r)
    /\ resultsClosed[r] /\ closer[r] = "done"
    /\ jobs[r] = <<>> /\ results[r] = <<>>

\* C6: once the extraction stage has started, under a fair scheduler and
\* with every extraction call returning, the workers terminate, results is
\* closed, the collector's loop ends and the run returns.
C6_PoolTerminates ==
    \A r \in Runs : (pc[r] = "send") ~> Quiescent(r)

C6_Witness ==
    /\ Quiescent(1) /\ PoolRan(1)
    /\ numWorkers[1] >= 2 /\ errCount[1] >= 1 /\ ret[1] = "nil"

\* C7: the workers started are min(NumCPU, 8, segments) many: at least one,
\* at most 8, at most one per segment.
C7_WorkerCount ==
    \A r \in Runs : (fn[r] = "video" /\ pc[r] = "send") =>
        LET started == Cardinality(DOMAIN wpc[r]) IN
        /\ started = numWorkers[r]
        /\ started >= 1
        /\ started <= WorkerCeiling /\ started <= numCPU /\ started <= nSeg[r]
        /\ started \in {WorkerCeiling, numCPU, nSeg[r]}
        /\ wg[r] = started

C7_Witness ==
    /\ pc[1] = "send" /\ numCPU > WorkerCeiling /\ nSeg[1] > WorkerCeiling
    /\ Cardinality(DOMAIN wpc[1]) = WorkerCeiling

WorkspaceGone(r) ==
    /\ tempDir[r] \notin dirs
    /\ \A f \in files : f[1] # tempDir[r]

\* C8: whenever a run has returned, on any exit path, its workspace
\* directory tree no longer exists.
C8_WorkspaceDeletedOnReturn ==
    \A r \in Runs : Returned(r) => WorkspaceGone(r)

C8_Witness ==
    /\ Returned(1) /\ fn[1] = "video" /\ tempDir[1] # NoDir
    /\ ret[1] = "failed to concatenate segments"
    /\ Cardinality(extracted[1]) >= 2 /\ WorkspaceGone(1)

\* C9: the concatenation and the teardown of the workspace happen only
\* after every worker has terminated: a worker that is extracting finds the
\* workspace in place and no concatenation under way.
C9_JoinBeforeConcat ==
    \A r \in Runs : fn[r] = "video" =>
        /\ PastCollect(r) => AllWorkersDone(r)
        /\ \A w \in DOMAIN wpc[r] :
               wpc[r][w] # "done" =>
                   /\ tempDir[r] \in dirs
                   /\ ~concatCalled[r]
                   /\ pc[r] \in {"send", "collect"}

C9_Witness ==
    /\ fn[1] = "video" /\ concatCalled[1] /\ ret[1] = "nil"
    /\ numWorkers[1] >= 2 /\ AllWorkersDone(1) /\ WorkspaceGone(1)

InProgress(r) == pc[r] \notin {"off", "start", "done"} /\ tempDir[r] # NoDir

\* C10: two runs in progress at the same time use distinct workspace
\* directories, and the segment files a run in progress has extracted stay
\* in place until that run tears its own workspace down.
C10_DistinctWorkspaces ==
    /\ \A r1, r2 \in Runs :
           (r1 # r2 /\ InProgress(r1) /\ InProgress(r2))
               => tempDir[r1] # tempDir[r2]
    /\ \A r \in Runs :
           InProgress(r) =>
               \A i \in extracted[r] : Exists(SegmentPath(tempDir[r], i))

\* ------------------------------------------------ segment computation
Starts == parseSilenceOutput(output).starts
Ends   == parseSilenceOutput(output).ends

\* start, end, start, end, ...: every silence is closed before the next one
\* opens, and only the last start may have no end
Alternating(out) ==
    \A i \in 1..Len(out) :
        out[i].kind = IF i % 2 = 1 THEN "silence_start" ELSE "silence_end"

LastUnresolved(out) == Alternating(out) /\ Len(out) % 2 = 1

WithinFile == \A i \in 1..Len(output) : output[i].t <= totalDuration

StrictlyTimed(out) == \A i \in 1..(Len(out) - 1) : out[i].t < out[i + 1].t

\* what silencedetect prints for a file: silences of positive length, one
\* after the other, none past the end of a file longer than 0.01 s
WellFormed ==
    /\ Alternating(output)
    /\ StrictlyTimed(output)
    /\ WithinFile
    /\ totalDuration > MinDuration

\* the computation of lines 840-881 ran and returned
Computed == audioSegments.status = "ok" /\ ~NoSilenceDetected(Starts, Ends)

LegacyComputed == nonSilentSegments.status = "ok"

Overlap(x, y) == x.StartTime < y.EndTime /\ y.StartTime < x.EndTime

Disjoint(segs) ==
    \A i, j \in 1..Len(segs) : i < j => ~Overlap(segs[i], segs[j])

StartsIncrease(segs) ==
    \A i \in 1..(Len(segs) - 1) : segs[i].StartTime < segs[i + 1].StartTime

\* the silences of an alternating output, as <<start, end>>; a start
\* without an end is silent to the end of the file
Silences(S, E, D) ==
    {<<S[i], IF i <= Len(E) THEN E[i] ELSE D>> : i \in 1..Len(S)}

\* the gaps between one silence and the next that are under the threshold
ShortGaps(S, E) ==
    {i \in 1..(Len(S) - 1) : i <= Len(E) /\ S[i + 1] - E[i] < ShortSegment}

RECURSIVE SumDurations(_)
SumDurations(segs) ==
    IF Len(segs) = 0 THEN 0
    ELSE segs[1].Duration + SumDurations(Tail(segs))

RECURSIVE TotalSilence(_, _, _, _)
TotalSilence(S, E, D, i) ==
    IF i > Len(S) THEN 0
    ELSE ((IF i <= Len(E) THEN E[i] ELSE D) - S[i])
         + TotalSilence(S, E, D, i + 1)

\* the hundredth of a second that begins at p lies in a returned segment,
\* in a silence, or in a gap that was discarded as too short
CellCovered(p, segs, S, E, D) ==
    \/ \E k \in 1..Len(segs) :
          segs[k].StartTime <= p /\ p < segs[k].EndTime
    \/ \E iv \in Silences(S, E, D) : iv[1] <= p /\ p < iv[2]
    \/ \E i \in ShortGaps(S, E) : E[i] <= p /\ p < S[i + 1]

Covers(segs) ==
    \A p \in 0..(totalDuration - 1) :
        CellCovered(p, segs, Starts, Ends, totalDuration)

\* C11: for every well-formed output (the last start possibly without an
\* end) and duration, the segments the computation returns are pairwise
\* non-overlapping and strictly increasing in start time
C11_DisjointIncreasing ==
    (Computed /\ WellFormed)
        => /\ Disjoint(audioSegments.segs)
           /\ StartsIncrease(audioSegments.segs)

\* C12: for every well-formed output and duration, every instant of
\* [0, D] lies in a returned segment, in a silence or in a discarded short
\* gap, for the starts/ends computation and for the interval walk
C12_Coverage ==
    WellFormed
        => /\ audioSegments.status = "ok" => Covers(audioSegments.segs)
           /\ LegacyComputed => Covers(nonSilentSegments.segs)

\* C13: for every well-formed output and duration, the sum of the
\* returned durations is at most D minus the total silence, and short of it
\* by at most 0.5 s for every discarded gap
C13_DurationRoundTrip ==
    (Computed /\ WellFormed)
        => LET sum  == SumDurations(audioSegments.segs)
               rest == totalDuration
                       - TotalSilence(Starts, Ends, totalDuration, 1)
           IN  /\ sum <= rest
               /\ rest - sum
                    <= ShortSegment * Cardinality(ShortGaps(Starts, Ends))

\* C14: when the output has no silence_start, the detection of a file
\* longer than 0.01 s returns exactly the one segment [0, D], in both
\* implementations
C14_NoStartWholeFile ==
    (Len(Starts) = 0 /\ totalDuration > MinDuration)
        => LET whole == <<AudioSegment(0, totalDuration, totalDuration)>>
           IN  /\ audioSegments.status = "ok"
                    => audioSegments.segs = whole
               /\ LegacyComputed => nonSilentSegments.segs = whole

\* C15: when the last silence_start has no silence_end, no returned segment
\* reaches past that start, in both implementations
C15_NothingAfterUnresolved ==
    (LastUnresolved(output) /\ WellFormed)
        => LET open == output[Len(output)].t
           IN  /\ audioSegments.status = "ok"
                    => \A k \in 1..Len(audioSegments.segs) :
                          audioSegments.segs[k].EndTime <= open
               /\ LegacyComputed
                    => \A k \in 1..Len(nonSilentSegments.segs) :
                          nonSilentSegments.segs[k].EndTime <= open

\* C16: the run copies the original exactly when the output had no silence
\* marker; with markers and no segment it does not copy
C16_CopyIffNoMarkers ==
    (branch # "none" /\ audioSegments.status = "ok" /\ WellFormed)
        => (branch = "copy" <=> Len(output) = 0)

\* C17: one silence (s, e) with 0 < s < e < D gives exactly the two
\* segments [0, s] and [e, D], in that order
C17_SingleSilence ==
    (Computed /\ Len(output) = 2 /\ Alternating(output)
       /\ 0 < output[1].t /\ output[1].t < output[2].t
       /\ output[2].t < totalDuration)
        => LET s0 == output[1].t
               e0 == output[2].t
           IN  audioSegments.segs =
                 <<AudioSegment(0, s0, s0),
                   AudioSegment(e0, totalDuration, totalDuration - e0)>>

\* a silence from 0.25 s to 0.50 s in a file of 0.75 s was computed
C17_Witness ==
    /\ output = <<[kind |-> "silence_start", t |-> 25],
                 [kind |-> "silence_end", t |-> 50]>>
    /\ totalDuration = 75
    /\ audioSegments = Ok(<<AudioSegment(0, 25, 25), AudioSegment(50, 75, 25)>>)

\* C18: the leading segment [0, S[0]] is returned if and only if S[0] > 0;
\* the 0.5 s threshold is not applied to the leading or the trailing
\* segment, so one silence from 0 to e < D gives the single segment [e, D]
C18_LeadingIffPositive ==
    Computed
        => LET segs == audioSegments.segs
               last == Ends[Len(Ends)]
           IN  /\ (Len(segs) > 0
                     /\ segs[1] = AudioSegment(0, Starts[1], Starts[1]))
                      <=> Starts[1] > 0
               /\ last < totalDuration
                    => /\ Len(segs) > 0
                       /\ segs[Len(segs)]
                            = AudioSegment(last, totalDuration,
                                           totalDuration - last)
               /\ (Len(output) = 2 /\ Alternating(output)
                     /\ output[1].t = 0 /\ output[2].t < totalDuration)
                    => segs = <<AudioSegment(last, totalDuration,
                                             totalDuration - last)>>

\* a silence from 0 to 0.25 s in a file of 0.50 s was computed: no leading
\* segment, and a trailing segment shorter than the threshold
C18_Witness ==
    /\ output = <<[kind |-> "silence_start", t |-> 0],
                 [kind |-> "silence_end", t |-> 25]>>
    /\ totalDuration = 50
    /\ audioSegments = Ok(<<AudioSegment(25, 50, 25)>>)

\* ------------------------------------------------ stream copy or encode
\* every codec option of the command is "copy"
IsStreamCopy(args) ==
    Len(args) > 0 /\ \A k \in 1..Len(args) : args[k][2] = "copy"

\* C19: without an encode configuration the recombination command is a
\* stream copy, in the video run, in video.ConcatenateSegments and in the
\* audio run, for every descriptor
C19_NilConfigStreamCopy ==
    (cpc = "ffmpeg" /\ config = NoConfig) => IsStreamCopy(codecArgs)

\* a resolution without its spaces and in lower case
Squeeze(str) == SelectSeq(ToLower(str), LAMBDA ch : ch # " ")

RequestedResolution(c) ==
    IF impl = "video" THEN c.Resolution ELSE c.TargetResolution

ExplicitBitrate(c) == impl = "video" /\ c.Bitrate > 0

\* a parameter the configuration sets differs from the descriptor
Differs(c, i) ==
    \/ /\ RequestedResolution(c) # <<>>
       /\ Squeeze(RequestedResolution(c)) # FormatResolution(i.Width, i.Height)
    \/ c.FrameRate > 0 /\ c.FrameRate # i.FrameRate
    \/ c.PixelFormat # "" /\ c.PixelFormat # i.PixelFormat
    \/ c.VideoCodec # "" /\ c.VideoCodec # i.VideoCodec
    \/ c.AudioCodec # "" /\ c.AudioCodec # i.AudioCodec

\* C20: with an encode configuration the recombination is an encode if and
\* only if a parameter it sets differs from the descriptor (the resolution
\* compared without regard to case and spaces) or it sets a bitrate
C20_EncodeIffDiffers ==
    (cpc = "ffmpeg" /\ impl \in {"ffmpego.video", "video"}
       /\ config # NoConfig)
        => (~IsStreamCopy(codecArgs)
              <=> (Differs(config, info) \/ ExplicitBitrate(config)))

\* --------------------------------------- shape of the returned segments
\* a segment lies inside the file, is not empty, and its duration is its
\* length
InsideFile(seg) ==
    /\ 0 <= seg.StartTime
    /\ seg.StartTime < seg.EndTime
    /\ seg.EndTime <= totalDuration
    /\ seg.Duration = seg.EndTime - seg.StartTime

AllInsideFile ==
    /\ \A k \in 1..Len(audioSegments.segs) : InsideFile(audioSegments.segs[k])
    /\ \A k \in 1..Len(nonSilentSegments.segs) :
          InsideFile(nonSilentSegments.segs[k])

C29_NoIndexOutOfRange ==
    (Len(Starts) >= 1 /\ Len(Ends) >= 1 /\ Len(Ends) <= Len(Starts))
        => audioSegments.status # "panic"

\* C30: for well-formed (strictly alternating) markers and one duration,
\* the interval walk and the starts/ends computation return the same list
C30_SameSegments ==
    (WellFormed /\ audioSegments.status = "ok" /\ LegacyComputed)
        => audioSegments.segs = nonSilentSegments.segs

\* ------------------------------------------- the list file, as a property
\* no other call has begun: call c runs on its own
Alone(c) == \A d \in Calls \ {c} : lpc[d] = "start"
LoopDone(c) == Len(callPaths[c]) > 0 /\ li[c] > Len(callPaths[c])
NoValidSegments ==
    {"no valid segments found to concatenate",
     "no valid audio segments found to concatenate"}

\* C21: a listed path that does not exist, the first one included, never
\* aborts the call; and a call whose loop wrote no line returns the
\* 'no valid segments' error without having run ffmpeg
C21_MissingSkipped ==
    \A c \in Calls : Alone(c) =>
        /\ lret[c] # "failed to open first segment"
        /\ fed[c].invoked => wrote[c] # <<>>
        /\ (lpc[c] = "done" /\ LoopDone(c) /\ wrote[c] = <<>>)
              => lret[c] \in NoValidSegments

\* a step in which a call that created its list file returns leaves no
\* file at that path
ReturnsWithoutList ==
    \A c \in Calls :
        (lpc[c] # "done" /\ lpc'[c] = "done" /\ listPath[c] # NoPath)
            => (lists'[listPath[c]] = Absent)

\* C22: a call that created its list file returns with no file at that
\* path, whatever it returns
C22_ListRemoved == [][ReturnsWithoutList]_vars

\* a call returned the failure to create the output directory, after it
\* had written a line to its list, and the list is gone
C22_Witness ==
    \E c \in Calls :
        /\ lret[c] = "failed to create output directory"
        /\ wrote[c] # <<>>
        /\ listPath[c] # NoPath
        /\ ~lists[listPath[c]].exists

\* C26: two calls of a package function never hold the same list path,
\* and the ffmpeg of each finds the list its own call wrote
C26_DistinctLists ==
    impl \in {"video", "audio"} =>
        /\ \A c \in Calls : \A d \in Calls \ {c} :
              listPath[c] # NoPath => listPath[c] # listPath[d]
        /\ \A c \in Calls :
              fed[c].invoked => (fed[c].found /\ fed[c].lines = wrote[c])

\* ------------------------------------- the extraction options, as a property
\* the values the command gives an option
Chosen(name) ==
    {codecArgs[k][2] : k \in {j \in 1..Len(codecArgs) : codecArgs[j][1] = name}}

Configured == config # NoConfig

\* C23: the extraction command carries, for the video codec, the audio
\* codec, the frame rate, the resolution and the pixel format, the value of
\* the configuration when it sets one and the value of the source
\* descriptor otherwise, for every configuration
C23_ConfigThenSource ==
    (cpc = "ffmpeg" /\ impl = "ffmpego.extract") =>
        /\ Chosen("-c:v") = {IF Configured /\ config.VideoCodec # ""
                             THEN config.VideoCodec ELSE info.VideoCodec}
        /\ Chosen("-c:a") = {IF Configured /\ config.AudioCodec # ""
                             THEN config.AudioCodec ELSE info.AudioCodec}
        /\ Chosen("-r") = {FormatRate(IF Configured /\ config.FrameRate > 0
                                      THEN config.FrameRate
                                      ELSE info.FrameRate)}
        /\ Chosen("-s") = {IF Configured /\ config.TargetResolution # <<>>
                           THEN config.TargetResolution
                           ELSE FormatResolution(info.Width, info.Height)}
        /\ Chosen("-pix_fmt") = {IF Configured /\ config.PixelFormat # ""
                                 THEN config.PixelFormat
                                 ELSE info.PixelFormat}

\* ---------------------------------------- the segment names, as a property
\* the number a name embeds, and the width it is written in
Embedded(name) == Atoi(SubSeq(name, 2, Len(name) - 1))
Width(name) == Len(name) - 2

\* two workers never extract to one path, and no two jobs get one name
DistinctNames ==
    /\ \A w \in NameWorkers : \A v \in NameWorkers \ {w} :
          (npc[w] = "extract" /\ npc[v] = "extract")
             => writing[w] # writing[v]
    /\ \A j \in 1..Len(names) : \A k \in 1..Len(names) :
          (j # k /\ names[j] # <<>>) => names[j] # names[k]

\* C24: the name of the file a worker extracts job index to embeds
\* index + 1 in at least three digits, and no two workers extract to the
\* same path at the same time
C24_SequenceNumberNames ==
    /\ \A w \in NameWorkers : npc[w] = "extract" =>
          /\ ~Embedded(writing[w]).err
          /\ Embedded(writing[w]).val = njob[w] + 1
          /\ Width(writing[w]) >= 3
    /\ DistinctNames

\* ------------------------------------------ fatal failures, as a property
FatalBeforePool ==
    {"failed to get video info", "failed to extract audio",
     "failed to detect silence"}

\* no stage after the detection has left a trace in run r
NothingAfterDetection(r) ==
    /\ numWorkers[r] = 0
    /\ DOMAIN wpc[r] = {}
    /\ jobs[r] = <<>> /\ results[r] = <<>>
    /\ extracted[r] = {}
    /\ segmentPaths[r] = <<>>
    /\ ~concatCalled[r]

\* C25: a video run whose probe, audio extraction or detection failed has
\* returned the error of that stage without having started a worker or
\* any later stage, and a run whose concatenation failed has returned the
\* error of the concatenation
C25_FatalStops ==
    \A r \in Runs : fn[r] = "video" =>
        /\ ret[r] \in FatalBeforePool
              => (Returned(r) /\ NothingAfterDetection(r))
        /\ ret[r] = "failed to concatenate segments"
              => (Returned(r) /\ concatCalled[r])

\* the detection of a run failed and the run returned its error
C25_Witness ==
    \E r \in Runs :
        /\ fn[r] = "video"
        /\ ret[r] = "failed to detect silence"
        /\ Returned(r)

\* ------------------------------------------------ data races, as a property
WorkersLive(r) ==
    \E w \in DOMAIN wpc[r] : wpc[r][w] \in {"recv", "extract"}

\* two goroutines are about to touch one variable, one of them writing
Race(r, g, h) == Writes(r, g) \cap (Reads(r, h) \cup Writes(r, h)) # {}

\* C27: while workers run, only the orchestrating goroutine writes the
\* result array and the failure counter, nobody writes the source
\* descriptor, the configuration or the segment list, and no two
\* goroutines touch one variable with at least one of them writing
C27_NoDataRace ==
    \A r \in Runs : (fn[r] = "video" /\ WorkersLive(r)) =>
        /\ \A g \in Goroutines(r) :
              /\ g.kind # "main" =>
                    Writes(r, g) \cap {"validSegments", "errCount"} = {}
              /\ Writes(r, g) \cap {"videoInfo", "config", "audioSegments"}
                    = {}
        /\ \A g \in Goroutines(r) : \A h \in Goroutines(r) \ {g} :
              ~Race(r, g, h)

\* the orchestrating goroutine collects while two workers extract
C27_Witness ==
    \E r \in Runs :
        /\ fn[r] = "video" /\ pc[r] = "collect"
        /\ validSegments[r] # [i \in 1..nSeg[r] |-> NoPath]
        /\ Cardinality({w \in DOMAIN wpc[r] : wpc[r][w] = "extract"}) >= 2

====
